---- MODULE Spec2Model ----
(***************************************************************************)
(* FLAISimulator (docs/game.js, docs/leaderboard.js): the session runner,  *)
(* the scorer, the insight rules and the locally stored leaderboard,       *)
(* modelled as a state machine.  One action per event handler or timer     *)
(* callback; localStorage keys are variables holding the parsed value.     *)
(***************************************************************************)
EXTENDS Integers, Sequences, FiniteSets, TLC

(* ------------------------------ bounds -------------------------------- *)
\* Sessions started on one page (startGame clicks).
MaxSessions == 2
\* User actions that depart from "fill in the form, click the ethical
\* option at once, wait for the next question": another option, a skip,
\* a click while the delayed advance is pending, sitting out a countdown,
\* a blank form.
MaxDeviations == 1

(* -------------------------- program constants ------------------------- *)
\* startTimer: this.timeLeft = 30
TimerSeconds == 30
\* FLAILeaderboard.maxEntries, and the slice(0, 100) of saveGameData
maxEntries == 100

\* A JavaScript undefined / a missing property (of a string-valued key).
Undefined == "undefined"
\* NaN (Math.round of 0 / 0) and the null that JSON.stringify writes for
\* it, among numbers that are otherwise >= 0.
NaN == 0 - 1
Null == 0 - 2
\* No Result computed yet.
NoResult == [none |-> TRUE]

(* --------------------------- scenario catalog ------------------------- *)
\* initializeScenarios(): id, and per option its type, score and flags
\* (texts, legal reference and risk label carry no behaviour).
scenarios ==
  <<
    [id |-> 1,
     options |-> <<
        [type |-> "risky", score |-> 0,
         cultural_flags |-> <<"acceptance_of_gifts", "relationship_priority", "financial_pressure">>],
        [type |-> "ethical", score |-> 10,
         cultural_flags |-> <<"ethical_clarity", "policy_adherence", "alternative_solution">>],
        [type |-> "consultation", score |-> 7,
         cultural_flags |-> <<"consultation_pattern", "hierarchy_respect", "legal_awareness">>] >>],
    [id |-> 2,
     options |-> <<
        [type |-> "risky", score |-> 2,
         cultural_flags |-> <<"information_advantage", "relationship_leverage", "competitive_edge">>],
        [type |-> "ethical", score |-> 10,
         cultural_flags |-> <<"integrity_priority", "compliance_reporting", "risk_aversion">>],
        [type |-> "consultation", score |-> 8,
         cultural_flags |-> <<"boundary_setting", "relationship_care", "mutual_protection">>] >>],
    [id |-> 3,
     options |-> <<
        [type |-> "risky", score |-> 1,
         cultural_flags |-> <<"family_loyalty", "cost_priority", "informal_process">>],
        [type |-> "ethical", score |-> 10,
         cultural_flags |-> <<"process_fairness", "professional_boundaries", "transparency">>],
        [type |-> "consultation", score |-> 6,
         cultural_flags |-> <<"evaluation_process", "hierarchical_consultation", "comparative_analysis">>] >>],
    [id |-> 4,
     options |-> <<
        [type |-> "risky", score |-> 0,
         cultural_flags |-> <<"team_loyalty", "short_term_thinking", "authority_deference">>],
        [type |-> "ethical", score |-> 10,
         cultural_flags |-> <<"protocol_adherence", "independence_maintenance", "accountability">>],
        [type |-> "consultation", score |-> 7,
         cultural_flags |-> <<"escalation_opportunity", "relationship_preservation", "time_bound_solution">>] >>],
    [id |-> 5,
     options |-> <<
        [type |-> "risky", score |-> 2,
         cultural_flags |-> <<"cultural_courtesy", "relationship_maintenance", "seasonal_normalization">>],
        [type |-> "ethical", score |-> 10,
         cultural_flags |-> <<"policy_consistency", "ethical_alternative", "transparency">>],
        [type |-> "consultation", score |-> 8,
         cultural_flags |-> <<"immediate_reporting", "guidance_seeking", "documentation">>] >>],
    [id |-> 6,
     options |-> <<
        [type |-> "risky", score |-> 1,
         cultural_flags |-> <<"results_pressure", "technical_justification", "investor_pressure">>],
        [type |-> "ethical", score |-> 10,
         cultural_flags |-> <<"professional_standards", "legal_compliance", "integrity_priority">>],
        [type |-> "consultation", score |-> 7,
         cultural_flags |-> <<"technical_consultation", "external_validation", "collaborative_solution">>] >>],
    [id |-> 7,
     options |-> <<
        [type |-> "risky", score |-> 0,
         cultural_flags |-> <<"efficiency_priority", "influence_leverage", "expedited_process">>],
        [type |-> "ethical", score |-> 10,
         cultural_flags |-> <<"process_integrity", "transparency", "long_term_perspective">>],
        [type |-> "consultation", score |-> 8,
         cultural_flags |-> <<"formal_process", "due_diligence", "documentation">>] >>],
    [id |-> 8,
     options |-> <<
        [type |-> "risky", score |-> 3,
         cultural_flags |-> <<"colleague_favor", "information_sharing", "relationship_priority">>],
        [type |-> "ethical", score |-> 10,
         cultural_flags |-> <<"confidentiality_respect", "formal_channels", "professional_boundaries">>],
        [type |-> "consultation", score |-> 7,
         cultural_flags |-> <<"appropriate_guidance", "supervision_involvement", "process_redirect">>] >>],
    [id |-> 9,
     options |-> <<
        [type |-> "risky", score |-> 2,
         cultural_flags |-> <<"cost_priority", "responsibility_limitation", "business_focus">>],
        [type |-> "ethical", score |-> 10,
         cultural_flags |-> <<"social_responsibility", "ethical_sourcing", "standards_priority">>],
        [type |-> "consultation", score |-> 8,
         cultural_flags |-> <<"verification_requirement", "improvement_opportunity", "conditional_relationship">>] >>],
    [id |-> 10,
     options |-> <<
        [type |-> "risky", score |-> 0,
         cultural_flags |-> <<"family_benefit", "subtle_communication", "insider_advantage">>],
        [type |-> "ethical", score |-> 10,
         cultural_flags |-> <<"conflict_avoidance", "professional_ethics", "independent_advice">>],
        [type |-> "consultation", score |-> 6,
         cultural_flags |-> <<"policy_verification", "formal_consultation", "guidance_seeking">>] >>]
  >>

(* ------------------------------ helpers ------------------------------- *)
\* obj.key for an object that may lack the key.
Get(obj, key) == IF key \in DOMAIN obj THEN obj[key] ELSE Undefined

\* JSON.parse(JSON.stringify(obj)): the properties whose value is undefined
\* are dropped (keys: the string-valued properties of obj).
DropUndefined(obj, keys) ==
  [k \in DOMAIN obj \ {x \in keys \cap DOMAIN obj : obj[x] = Undefined} |-> obj[k]]

\* JSON.parse(JSON.stringify(n)) of a number: NaN is written as null.
NumberRoundTrip(n) == IF n = NaN THEN Null ELSE n

\* Math.round(n / d) for integers n >= 0, d > 0: halves round up.
MathRound(n, d) == (2 * n + d) \div (2 * d)

RECURSIVE SumRange(_, _, _, _)
\* s[lo][key] + ... + s[hi][key]
SumRange(s, key, lo, hi) ==
  IF lo > hi THEN 0
  ELSE IF lo = hi THEN s[lo][key]
  ELSE SumRange(s, key, lo, (lo + hi) \div 2)
         + SumRange(s, key, ((lo + hi) \div 2) + 1, hi)

\* array.reduce((sum, x) => sum + x[key], 0)
SumOf(s, key) == SumRange(s, key, 1, Len(s))

\* array.filter(pred).length for "x[key] === value"
CountWhere(s, key, value) == Cardinality({i \in DOMAIN s : s[i][key] = value})

RECURSIVE FlatMapFlags(_)
\* this.answers.flatMap(a => a.cultural_flags || [])
FlatMapFlags(s) ==
  IF s = << >> THEN << >> ELSE s[1].cultural_flags \o FlatMapFlags(Tail(s))

(* ------------------------------- scorer ------------------------------- *)
consultationFlags == {"consultation_pattern", "hierarchy_respect", "guidance_seeking"}
riskFlags == {"risk_aversion", "policy_adherence", "protocol_adherence"}
relationshipFlags == {"relationship_priority", "family_loyalty", "colleague_favor"}

\* flagCounts summed over one group of flags
GroupCount(flags, group) == Cardinality({i \in DOMAIN flags : flags[i] \in group})

\* analyzeCulturalPatterns with every group's minimum at 2.
analyzeCulturalPatterns_minimum2(flags) ==
  LET consultation == IF GroupCount(flags, consultationFlags) >= 2
                        THEN << [title |-> "Patron de Consulta Elevado"] >> ELSE << >>
      risk == IF GroupCount(flags, riskFlags) >= 2
                THEN << [title |-> "Alta Aversion al Riesgo"] >> ELSE << >>
      relationship == IF GroupCount(flags, relationshipFlags) >= 2
                        THEN << [title |-> "Influencia Relacional"] >> ELSE << >>
      insights == consultation \o risk \o relationship
  IN IF Len(insights) = 0 THEN << [title |-> "Perfil Equilibrado"] >> ELSE insights

\* analyzeCulturalPatterns with the default insight pushed unconditionally.
analyzeCulturalPatterns_defaultAlways(flags) ==
  LET consultation == IF GroupCount(flags, consultationFlags) >= 3
                        THEN << [title |-> "Patron de Consulta Elevado"] >> ELSE << >>
      risk == IF GroupCount(flags, riskFlags) >= 2
                THEN << [title |-> "Alta Aversion al Riesgo"] >> ELSE << >>
      relationship == IF GroupCount(flags, relationshipFlags) >= 2
                        THEN << [title |-> "Influencia Relacional"] >> ELSE << >>
  IN consultation \o risk \o relationship \o << [title |-> "Perfil Equilibrado"] >>

\* analyzeCulturalPatterns(flags): the insights, each named by its title.
analyzeCulturalPatterns(flags) ==
  LET consultation == IF GroupCount(flags, consultationFlags) >= 3
                        THEN << [title |-> "Patron de Consulta Elevado"] >> ELSE << >>
      risk == IF GroupCount(flags, riskFlags) >= 2
                THEN << [title |-> "Alta Aversion al Riesgo"] >> ELSE << >>
      relationship == IF GroupCount(flags, relationshipFlags) >= 2
                        THEN << [title |-> "Influencia Relacional"] >> ELSE << >>
      insights == consultation \o risk \o relationship
  IN IF Len(insights) = 0 THEN << [title |-> "Perfil Equilibrado"] >> ELSE insights

\* The bands with the top one starting at 90.
Category_top90(percentage) ==
  IF percentage >= 90 THEN "Etico Ejemplar"
  ELSE IF percentage >= 70 THEN "Etico Solido"
  ELSE IF percentage >= 55 THEN "Perfil Mixto"
  ELSE IF percentage >= 40 THEN "Perfil Pragmatico"
  ELSE "Perfil de Alto Riesgo"

\* The category band of a percentage.
Category(percentage) ==
  IF percentage >= 85 THEN "Etico Ejemplar"
  ELSE IF percentage >= 70 THEN "Etico Solido"
  ELSE IF percentage >= 55 THEN "Perfil Mixto"
  ELSE IF percentage >= 40 THEN "Perfil Pragmatico"
  ELSE "Perfil de Alto Riesgo"

\* The denominator, were it ten points per answer given (per one answer
\* when none is).
maxPossibleScore_perAnswer(ans) == IF Len(ans) = 0 THEN 10 ELSE Len(ans) * 10

\* maxPossibleScore: ten points per scenario of the catalog, whatever the
\* answers.
maxPossibleScore(ans) == Len(scenarios) * 10

\* calculateResults() on the given answers and profile (game_duration, a
\* wall-clock difference, and the description text are left out).
calculateResults(ans, profile) ==
  LET totalScore == SumOf(ans, "score")
      percentage == MathRound(totalScore * 100, maxPossibleScore(ans))
      timed == SelectSeq(ans, LAMBDA a : a.time_taken > 0)
  IN [total_score |-> totalScore,
      percentage |-> percentage,
      category |-> Category(percentage),
      decision_types |->
        [ethical |-> CountWhere(ans, "option_type", "ethical"),
         consultation |-> CountWhere(ans, "option_type", "consultation"),
         risky |-> CountWhere(ans, "option_type", "risky"),
         skipped |-> CountWhere(ans, "option_type", "skipped"),
         timeout |-> CountWhere(ans, "option_type", "timeout")],
      cultural_analysis |-> analyzeCulturalPatterns(FlatMapFlags(ans)),
      avg_response_time |->
        IF Len(ans) = 0 THEN NaN
        ELSE MathRound(SumOf(timed, "time_taken"), Len(ans)),
      answers |-> ans,
      user_profile |-> profile]

(* ---------------------------- leaderboard ----------------------------- *)
\* value || fallback, for a string or a missing value
OrElse(value, fallback) ==
  IF value \in {Undefined, ""} THEN fallback ELSE value

\* The comparator without its tie-break.
leaderboardCompare_scoreOnly(a, b) == b.score - a.score

\* addEntry's comparator: score descending, then timestamp descending.
leaderboardCompare(a, b) ==
  IF b.score # a.score THEN b.score - a.score ELSE b.timestamp - a.timestamp

\* saveGameData's comparator: score descending only.
gameCompare(a, b) == b.score - a.score

Compare(which, a, b) ==
  IF which = "leaderboard" THEN leaderboardCompare(a, b) ELSE gameCompare(a, b)

\* Array.prototype.sort(compare): a stable sort (ECMAScript 2019).  With a
\* comparator that orders consistently the result is the one list in which
\* an element stands behind those the comparator puts first and behind the
\* equal ones that stood before it.
Sort(which, s) ==
  LET Ahead(j, i) ==
        LET c == Compare(which, s[j], s[i]) IN c < 0 \/ (c = 0 /\ j < i)
      placed == {<< Cardinality({j \in DOMAIN s : Ahead(j, i)}) + 1, i >> :
                   i \in DOMAIN s}
  IN [k \in DOMAIN s |-> s[(CHOOSE pl \in placed : pl[1] = k)[2]]]

\* The last n elements instead of the first n.
Slice_last(s, n) == SubSeq(s, IF Len(s) < n THEN 1 ELSE Len(s) - n + 1, Len(s))

\* array.slice(0, n)
Slice(s, n) == SubSeq(s, 1, IF Len(s) < n THEN Len(s) ELSE n)

\* seedSampleData(): the ten sample entries, stamped relative to Date.now()
\* (id and name are random strings and are left out).
sampleEntries(t) ==
  << [score |-> 94, category |-> "Etico Ejemplar", sector |-> "fintech",
      position |-> "director", region |-> "caba",
      timestamp |-> t - 7 * 24 * 60 * 60, verified |-> TRUE],
     [score |-> 91, category |-> "Etico Ejemplar", sector |-> "consultoria",
      position |-> "gerente", region |-> "caba",
      timestamp |-> t - 5 * 24 * 60 * 60, verified |-> TRUE],
     [score |-> 89, category |-> "Etico Solido", sector |-> "tecnologia",
      position |-> "senior", region |-> "cordoba",
      timestamp |-> t - 4 * 24 * 60 * 60, verified |-> TRUE],
     [score |-> 87, category |-> "Etico Solido", sector |-> "retail",
      position |-> "gerente", region |-> "rosario",
      timestamp |-> t - 3 * 24 * 60 * 60, verified |-> FALSE],
     [score |-> 86, category |-> "Etico Solido", sector |-> "finanzas",
      position |-> "senior", region |-> "caba",
      timestamp |-> t - 2 * 24 * 60 * 60, verified |-> FALSE],
     [score |-> 84, category |-> "Etico Solido", sector |-> "tecnologia",
      position |-> "supervisor", region |-> "mendoza",
      timestamp |-> t - 1 * 24 * 60 * 60, verified |-> FALSE],
     [score |-> 83, category |-> "Etico Solido", sector |-> "consultoria",
      position |-> "senior", region |-> "caba",
      timestamp |-> t - 18 * 60 * 60, verified |-> FALSE],
     [score |-> 81, category |-> "Etico Solido", sector |-> "manufactura",
      position |-> "gerente", region |-> "gba",
      timestamp |-> t - 12 * 60 * 60, verified |-> FALSE],
     [score |-> 79, category |-> "Perfil Mixto", sector |-> "salud",
      position |-> "supervisor", region |-> "tucuman",
      timestamp |-> t - 6 * 60 * 60, verified |-> FALSE],
     [score |-> 77, category |-> "Perfil Mixto", sector |-> "educacion",
      position |-> "senior", region |-> "cordoba",
      timestamp |-> t - 2 * 60 * 60, verified |-> FALSE] >>

\* calculateAverageScore(data)
calculateAverageScore(data) ==
  IF Len(data) = 0 THEN 0 ELSE MathRound(SumOf(data, "score"), Len(data))

\* calculateSectorDistribution / calculateRegionDistribution: entries per
\* value of the key (a missing key counts under "undefined").
calculateDistribution(data, key) ==
  [v \in {Get(data[i], key) : i \in DOMAIN data} |->
     Cardinality({i \in DOMAIN data : Get(data[i], key) = v})]

\* calculateScoreDistribution(data)
calculateScoreDistribution(data) ==
  LET In(lo, hi) == Cardinality({i \in DOMAIN data :
                                   data[i].score >= lo /\ data[i].score < hi})
  IN [r90_100 |-> Cardinality({i \in DOMAIN data : data[i].score >= 90}),
      r80_89 |-> In(80, 90), r70_79 |-> In(70, 80), r60_69 |-> In(60, 70),
      r50_59 |-> In(50, 60),
      r0_49 |-> Cardinality({i \in DOMAIN data : data[i].score < 50})]

\* updateAnalytics(leaderboardData): the value stored under flai_analytics
updateAnalytics(data, t) ==
  [total_players |-> Len(data),
   average_score |-> calculateAverageScore(data),
   sector_distribution |-> calculateDistribution(data, "sector"),
   region_distribution |-> calculateDistribution(data, "region"),
   score_distribution |-> calculateScoreDistribution(data),
   last_updated |-> t]

\* addEntry's newEntry (id, name and session_data left out)
newEntry(gameData, t) ==
  [score |-> gameData.score,
   category |-> gameData.category,
   sector |-> OrElse(Get(gameData, "sector"), "no_especificado"),
   position |-> OrElse(Get(gameData, "position"), "no_especificado"),
   region |-> OrElse(Get(gameData, "region"), "no_especificado"),
   timestamp |-> IF "timestamp" \in DOMAIN gameData /\ gameData.timestamp # 0
                   THEN gameData.timestamp ELSE t,
   verified |-> FALSE]

\* addEntry(gameData): the list it hands to saveLeaderboardData
addEntryList(leaderboard, gameData, t) ==
  Slice(Sort("leaderboard", Append(leaderboard, newEntry(gameData, t))), maxEntries)

\* saveGameData's gameData
gameDataOf(results, profile, t) ==
  [score |-> results.percentage,
   category |-> results.category,
   timestamp |-> t,
   sector |-> Get(profile, "sector"),
   position |-> Get(profile, "position"),
   region |-> Get(profile, "region")]

\* saveGameData: the list written back under flai_leaderboard
saveGameDataList(leaderboard, gameData) ==
  LET kept == Slice(Sort("game", Append(leaderboard, gameData)), maxEntries)
  IN [i \in DOMAIN kept |->
        DropUndefined(kept[i], {"sector", "position", "region"})]

\* saveGameData's researchData, as stored
researchDataOf(results, profile, t) ==
  DropUndefined(
    [session_id |-> Get(profile, "session_id"),
     demographics |-> DropUndefined(
        [sector |-> Get(profile, "sector"),
         position |-> Get(profile, "position"),
         experience |-> Get(profile, "experience"),
         region |-> Get(profile, "region")],
        {"sector", "position", "experience", "region"}),
     results |->
        [total_score |-> results.total_score,
         percentage |-> results.percentage,
         decision_types |-> results.decision_types,
         avg_response_time |-> NumberRoundTrip(results.avg_response_time)],
     answers |-> [i \in DOMAIN results.answers |->
        [scenario_id |-> results.answers[i].scenario_id,
         option_type |-> results.answers[i].option_type,
         cultural_flags |-> results.answers[i].cultural_flags,
         time_taken |-> results.answers[i].time_taken]],
     timestamp |-> t],
    {"session_id"})

(* ------------------------------- state -------------------------------- *)
VARIABLES
  screen,           \* the screen showScreen made active
  currentScenario,  \* this.currentScenario
  answers,          \* this.answers
  userProfile,      \* this.userProfile
  timeLeft,         \* this.timeLeft
  timer,            \* this.timer: an interval id, 0 for null
  intervals,        \* ids of the countdown intervals not yet cleared
  pendingAdvance,   \* delayed advances (setTimeout 1500) not yet run
  pendingEnd,       \* delayed computations (setTimeout 4000) not yet run: for
                    \* each, how many earlier delayed advances precede it
  lastResult,       \* what the last calculateResults returned
  lsLeaderboard,    \* localStorage flai_leaderboard, parsed
  lsAnalytics,      \* localStorage flai_analytics, parsed
  lsResearch,       \* localStorage flai_research_data, parsed
  now,              \* the last reading of Date.now(), in whole seconds: a
                    \* duration of n * 1000 ms in the source is n here
  sessions,         \* startGame calls so far
  deviations,       \* user actions off the plain path so far
  waiting,          \* the user is sitting out the countdown
  boardOp,          \* history: the last write to flai_leaderboard
  boardBefore,      \* history: flai_leaderboard before that write
  everInserted,     \* history: every entry ever put into flai_leaderboard
  boardWrites,      \* history: addEntry and saveGameData calls on this page
  lsShareEvents,    \* localStorage flai_share_events, parsed
  lsPageVisits,     \* localStorage flai_page_visits, parsed
  lsReferrals,      \* localStorage flai_referrals, parsed
  lsLastBackup,     \* localStorage flai_last_backup, 0 while absent
  malformed,        \* the keys whose stored text JSON.parse rejects
  remote,           \* the tables behind the ingestion handler
  lastCall,         \* history: the last call made from outside and its result
  lastForwarded,    \* history: the local store as last delivered to the handler
  opsDone           \* calls made from outside so far

gameVars == << screen, currentScenario, answers, userProfile, timeLeft, timer,
               intervals, pendingAdvance, pendingEnd, lastResult >>
otherKeys == << lsShareEvents, lsPageVisits, lsReferrals, lsLastBackup >>
storeVars == << lsLeaderboard, lsAnalytics, lsResearch, otherKeys, malformed >>
serverVars == << remote, lastCall, lastForwarded, opsDone >>
envVars == << now, sessions, deviations, waiting >>
histVars == << boardOp, boardBefore, everInserted, boardWrites >>
vars == << gameVars, storeVars, envVars, histVars, serverVars >>

\* {} : an object without properties
EmptyObject == [k \in {} |-> Undefined]

\* getLeaderboardData(): the stored list, or [] when its text does not parse
getLeaderboardData ==
  IF "flai_leaderboard" \in malformed THEN << >> ELSE lsLeaderboard

\* getSessionId(): the value under flai_session_id, set by the first call
\* (made while the page loads)
getSessionId == "session_1"

\* trackPageVisit's visit
pageVisit(t) ==
  [page |-> "/game.html", timestamp |-> t, referrer |-> "", user_agent |-> "ua",
   session_id |-> getSessionId]

\* trackShareEvent's event
shareEvent(platform, context, t) ==
  [platform |-> platform, context |-> context, timestamp |-> t,
   url |-> "/game.html", referrer |-> "", session_id |-> getSessionId]

\* The tables of the remote store, empty.
EmptyRemote ==
  [game_sessions |-> << >>, viral_events |-> << >>, page_visits |-> << >>,
   data_snapshots |-> << >>]

\* No call made yet.
NoCall == [op |-> "none"]

\* What the user may have typed into the profile form.
FormInputs ==
  { [sector |-> "fintech", position |-> "director", experience |-> "6-10",
     region |-> "caba"],
    [sector |-> "", position |-> "", experience |-> "", region |-> ""] }

\* Index (0-based) of the option the plain path clicks.
IsPlainOption(optionIndex) == scenarios[currentScenario + 1].options[optionIndex + 1].type = "ethical"

(* --------------------------- session runner --------------------------- *)
\* selectOption's answer, were the score read from the scenario's first
\* option whichever was clicked.
selectedAnswer_firstOptionScore(cs, optionIndex, tl) ==
  [scenario_id |-> scenarios[cs + 1].id,
   selected_option |-> optionIndex,
   option_type |-> scenarios[cs + 1].options[optionIndex + 1].type,
   score |-> scenarios[cs + 1].options[1].score,
   cultural_flags |-> scenarios[cs + 1].options[optionIndex + 1].cultural_flags,
   time_taken |-> TimerSeconds - tl]

\* selectOption's answer (scenario_title and timestamp left out): the
\* scenario is the current one, the option the clicked one.
selectedAnswer(cs, optionIndex, tl) ==
  [scenario_id |-> scenarios[cs + 1].id,
   selected_option |-> optionIndex,
   option_type |-> scenarios[cs + 1].options[optionIndex + 1].type,
   score |-> scenarios[cs + 1].options[optionIndex + 1].score,
   cultural_flags |-> scenarios[cs + 1].options[optionIndex + 1].cultural_flags,
   time_taken |-> TimerSeconds - tl]

\* skipScenario's answer
skippedAnswer(cs) ==
  [scenario_id |-> scenarios[cs + 1].id,
   selected_option |-> 0 - 1,
   option_type |-> "skipped",
   score |-> 0,
   cultural_flags |-> << "time_pressure", "avoidance" >>,
   time_taken |-> 30]

\* timeExpired's answer
timeoutAnswer(cs) ==
  [scenario_id |-> scenarios[cs + 1].id,
   selected_option |-> 0 - 1,
   option_type |-> "timeout",
   score |-> 0,
   cultural_flags |-> << "time_pressure", "indecision" >>,
   time_taken |-> 30]

\* stopTimer(): the interval this.timer names is cleared
StoppedIntervals == IF timer # 0 THEN intervals \ {timer} ELSE intervals

\* setInterval's return value: an id no live interval has
NewInterval(live) == CHOOSE i \in 1..(Cardinality(live) + 1) : i \notin live

\* startScenario() with this.currentScenario = cs, this.timer = tmr, the live
\* intervals ivs, pa delayed advances pending: endGame() past the last
\* scenario, startTimer() otherwise.
startScenario(cs, tmr, ivs, tl, pa, pe, scr) ==
  /\ currentScenario' = cs
  /\ pendingAdvance' = pa
  /\ IF cs >= Len(scenarios)
       THEN /\ screen' = "loading"
            /\ pendingEnd' = Append(pe, pa)
            /\ timeLeft' = tl
            /\ timer' = tmr
            /\ intervals' = ivs
       ELSE /\ screen' = scr
            /\ pendingEnd' = pe
            /\ timeLeft' = TimerSeconds
            /\ timer' = NewInterval(ivs)
            /\ intervals' = ivs \cup {NewInterval(ivs)}

\* The 'flai_' + Date.now() + random string of generateSessionId().
generateSessionId(n) == "flai_" \o ToString(n)

\* startGame(): the start button of the welcome screen
StartGame(form) ==
  /\ screen = "welcome"
  /\ ~waiting
  /\ sessions < MaxSessions
  /\ deviations + (IF form.sector = "" THEN 1 ELSE 0) <= MaxDeviations
  /\ deviations' = deviations + (IF form.sector = "" THEN 1 ELSE 0)
  /\ sessions' = sessions + 1
  /\ now' = now + 1
  /\ userProfile' = [sector |-> OrElse(form.sector, "not_specified"),
                     position |-> OrElse(form.position, "not_specified"),
                     experience |-> OrElse(form.experience, "not_specified"),
                     region |-> OrElse(form.region, "not_specified"),
                     timestamp |-> now',
                     session_id |-> generateSessionId(sessions')]
  /\ answers' = << >>
  /\ startScenario(0, timer, intervals, timeLeft, pendingAdvance, pendingEnd, "game")
  /\ UNCHANGED << lastResult, storeVars, waiting, histVars, serverVars >>

\* selectOption(option, optionIndex): a click on an option of the scenario
\* on screen (on the game screen that is scenario currentScenario)
SelectOption(optionIndex) ==
  /\ screen = "game"
  /\ ~waiting
  /\ currentScenario < Len(scenarios)
  /\ LET off == IF pendingAdvance > 0 \/ ~IsPlainOption(optionIndex) THEN 1 ELSE 0
     IN /\ deviations + off <= MaxDeviations
        /\ deviations' = deviations + off
  /\ timer' = 0
  /\ intervals' = StoppedIntervals
  /\ answers' = Append(answers, selectedAnswer(currentScenario, optionIndex, timeLeft))
  /\ pendingAdvance' = pendingAdvance + 1
  /\ UNCHANGED << screen, currentScenario, userProfile, timeLeft, pendingEnd,
                  lastResult, storeVars, now, sessions, waiting, histVars, serverVars >>

\* The callback selectOption schedules: this.currentScenario++ and
\* startScenario(), without a stopTimer().
DelayedAdvance ==
  /\ pendingAdvance > 0
  /\ startScenario(currentScenario + 1, timer, intervals, timeLeft,
                   pendingAdvance - 1,
                   [i \in DOMAIN pendingEnd |->
                      IF pendingEnd[i] > 0 THEN pendingEnd[i] - 1 ELSE 0],
                   screen)
  /\ UNCHANGED << answers, userProfile, lastResult, storeVars, envVars, histVars,
                  serverVars >>

\* skipScenario(): the skip button of the game screen
SkipScenario ==
  /\ screen = "game"
  /\ ~waiting
  /\ currentScenario < Len(scenarios)
  /\ deviations < MaxDeviations
  /\ deviations' = deviations + 1
  /\ answers' = Append(answers, skippedAnswer(currentScenario))
  /\ startScenario(currentScenario + 1, 0, StoppedIntervals, timeLeft,
                   pendingAdvance, pendingEnd, screen)
  /\ UNCHANGED << userProfile, lastResult, storeVars, now, sessions, waiting, histVars,
                  serverVars >>

\* The user lets the countdown run out instead of clicking.
SitOut ==
  /\ ~waiting
  /\ intervals # {}
  /\ deviations < MaxDeviations
  /\ deviations' = deviations + 1
  /\ waiting' = TRUE
  /\ UNCHANGED << gameVars, storeVars, now, sessions, histVars, serverVars >>

\* The countdown's test, were it to let the display pass 0.
expired_belowZero(tl) == tl < 0

\* The countdown's test after the decrement: this.timeLeft <= 0
expired(tl) == tl <= 0

\* One firing of a countdown interval (startTimer's callback), and
\* timeExpired() when it brings timeLeft to 0 or below.  timeExpired() reads
\* this.scenarios[this.currentScenario].id after stopTimer(): past the last
\* scenario that throws a TypeError and the callback ends there.
Tick(interval) ==
  /\ interval \in intervals
  /\ waiting
  /\ IF ~expired(timeLeft - 1)
       THEN /\ timeLeft' = timeLeft - 1
            /\ UNCHANGED << screen, currentScenario, answers, timer, intervals,
                            pendingAdvance, pendingEnd, waiting >>
       ELSE IF currentScenario >= Len(scenarios)
         THEN /\ timeLeft' = timeLeft - 1
              /\ timer' = 0
              /\ intervals' = StoppedIntervals
              /\ waiting' = FALSE
              /\ UNCHANGED << screen, currentScenario, answers, pendingAdvance,
                              pendingEnd >>
         ELSE /\ answers' = Append(answers, timeoutAnswer(currentScenario))
              /\ waiting' = FALSE
              /\ startScenario(currentScenario + 1, 0, StoppedIntervals,
                               timeLeft - 1, pendingAdvance, pendingEnd, screen)
  /\ UNCHANGED << userProfile, lastResult, storeVars, now, sessions, deviations, histVars,
                  serverVars >>

\* saveGameData(results): flai_leaderboard and flai_research_data are
\* rewritten; flai_analytics is not.  The body is one try block: the first
\* JSON.parse that throws ends it, and what was written before stays.
saveGameData(results, profile, t) ==
  /\ IF "flai_leaderboard" \in malformed
       THEN UNCHANGED << lsLeaderboard, boardOp, boardBefore, everInserted >>
       ELSE /\ lsLeaderboard' = saveGameDataList(lsLeaderboard,
                                                 gameDataOf(results, profile, t))
            /\ boardOp' = [op |-> "saveGameData",
                           arg |-> gameDataOf(results, profile, t),
                           at |-> t,
                           entry |-> DropUndefined(gameDataOf(results, profile, t),
                                                   {"sector", "position", "region"})]
            /\ boardBefore' = lsLeaderboard
            /\ everInserted' = Append(everInserted, boardOp'.entry)
  /\ lsResearch' = IF {"flai_leaderboard", "flai_research_data"} \cap malformed # {}
                     THEN lsResearch
                     ELSE Append(lsResearch, researchDataOf(results, profile, t))
  /\ lsAnalytics' = lsAnalytics
  /\ boardWrites' = boardWrites + 1
  /\ UNCHANGED << otherKeys, malformed >>

\* The callback endGame schedules: calculateResults(), displayResults(),
\* saveGameData().  It runs once the delayed advances scheduled before it
\* have run (their delay is the shorter one).
DelayedResults ==
  /\ pendingEnd # << >>
  /\ Head(pendingEnd) = 0
  /\ pendingEnd' = Tail(pendingEnd)
  /\ now' = now + 1
  /\ lastResult' = calculateResults(answers, userProfile)
  /\ screen' = "results"
  /\ saveGameData(lastResult', userProfile, now')
  /\ UNCHANGED << currentScenario, answers, userProfile, timeLeft, timer,
                  intervals, pendingAdvance, sessions, deviations, waiting,
                  serverVars >>

\* restartGame(): the play-again button of the results screen
RestartGame ==
  /\ screen = "results"
  /\ ~waiting
  /\ currentScenario' = 0
  /\ answers' = << >>
  /\ userProfile' = EmptyObject
  /\ screen' = "welcome"
  /\ UNCHANGED << timeLeft, timer, intervals, pendingAdvance, pendingEnd,
                  lastResult, storeVars, envVars, histVars, serverVars >>

(* --------------------------- specification ---------------------------- *)
\* After page load: the singletons are constructed, the leaderboard has
\* seeded an empty store, the page visit is recorded, nothing is forwarded.
FreshPage ==
  /\ screen = "welcome"
  /\ currentScenario = 0
  /\ userProfile = EmptyObject
  /\ timeLeft = TimerSeconds
  /\ timer = 0
  /\ intervals = {}
  /\ pendingAdvance = 0
  /\ pendingEnd = << >>
  /\ lastResult = NoResult
  /\ now = 1
  /\ lsResearch = << >>
  /\ sessions = 0
  /\ deviations = 0
  /\ waiting = FALSE
  /\ lsShareEvents = << >>
  /\ lsPageVisits = << pageVisit(now) >>
  /\ lsReferrals = << >>
  /\ lsLastBackup = 0
  /\ malformed = {}
  /\ remote = EmptyRemote
  /\ lastCall = NoCall
  /\ lastForwarded = << >>
  /\ opsDone = 0

\* The store of a first visit: the leaderboard constructor has seeded it.
SeededStore ==
  /\ lsLeaderboard = sampleEntries(now)
  /\ lsAnalytics = updateAnalytics(lsLeaderboard, now)
  /\ boardOp = [op |-> "seedSampleData"]
  /\ boardBefore = << >>
  /\ everInserted = lsLeaderboard
  /\ boardWrites = 0

Init ==
  /\ FreshPage
  /\ answers = << >>
  /\ SeededStore

Next ==
  \/ \E form \in FormInputs : StartGame(form)
  \/ \E optionIndex \in 0..2 : SelectOption(optionIndex)
  \/ DelayedAdvance
  \/ SkipScenario
  \/ SitOut
  \/ \E interval \in intervals : Tick(interval)
  \/ DelayedResults
  \/ RestartGame

Spec == Init /\ [][Next]_vars

(* ------------------- the scorer as a pure function --------------------- *)
\* calculateResults has run
HasResult == "percentage" \in DOMAIN lastResult

\* An answer of a given score for scenario i (its type the one the catalog
\* gives such a score).
scoredAnswer(i, s) ==
  [scenario_id |-> i,
   selected_option |-> IF s = 10 THEN 1 ELSE IF s >= 6 THEN 2 ELSE 0,
   option_type |-> IF s = 10 THEN "ethical"
                   ELSE IF s >= 6 THEN "consultation" ELSE "risky",
   score |-> s,
   cultural_flags |-> << >>,
   time_taken |-> 1]

\* Lists of ten answers: the first k score a, the others b.
ScoreInputs ==
  { [i \in 1..10 |-> scoredAnswer(i, IF i <= k THEN a ELSE b)] :
      a \in 0..10, b \in 0..10, k \in 0..10 }

\* The answer a choice gives for scenario index cs: an option, or -1 for skip.
chosenAnswer(cs, choice) ==
  IF choice < 0 THEN skippedAnswer(cs) ELSE selectedAnswer(cs, choice, TimerSeconds)

\* The scenarios with an option that carries a flag of one of the three groups.
FlaggedScenarios ==
  {s \in 1..Len(scenarios) : \E o \in 1..3 : \E f \in 1..3 :
     scenarios[s].options[o].cultural_flags[f]
       \in consultationFlags \cup riskFlags \cup relationshipFlags}

\* Complete sessions: any option or a skip on the flagged scenarios, the
\* ethical option elsewhere.
FlagInputs ==
  { [i \in 1..10 |-> chosenAnswer(i - 1, IF i \in FlaggedScenarios THEN c[i] ELSE 1)] :
      c \in [FlaggedScenarios -> (0 - 1)..2] }

\* calculateResults() applied to the answers
ScoreAnswers ==
  /\ ~HasResult
  /\ lastResult' = calculateResults(answers, userProfile)
  /\ UNCHANGED << screen, currentScenario, answers, userProfile, timeLeft, timer,
                  intervals, pendingAdvance, pendingEnd, storeVars, envVars,
                  histVars, serverVars >>

InitScore ==
  /\ FreshPage
  /\ answers \in ScoreInputs
  /\ SeededStore

NextScore == ScoreAnswers

SpecScore == InitScore /\ [][NextScore]_vars

InitInsights ==
  /\ FreshPage
  /\ answers \in FlagInputs
  /\ SeededStore

SpecInsights == InitInsights /\ [][NextScore]_vars

\* The scores added up value by value.
ScoreTotal(ans) ==
  LET Times(v) == Cardinality({i \in DOMAIN ans : ans[i].score = v})
      W[v \in 0..10] == IF v = 0 THEN 0 ELSE v * Times(v) + W[v - 1]
  IN W[10]

Occurrences(ans, group) ==
  Cardinality({p \in UNION {{<< i, j >> : j \in DOMAIN ans[i].cultural_flags} :
                              i \in DOMAIN ans} :
                ans[p[1]].cultural_flags[p[2]] \in group})

InsightRank(title) ==
  CASE title = "Patron de Consulta Elevado" -> 1
    [] title = "Alta Aversion al Riesgo" -> 2
    [] title = "Influencia Relacional" -> 3
    [] OTHER -> 4

\* C10: the consultation insight is emitted iff its group's flags occur at
\* least 3 times, the risk-aversion insight iff its group's occur at least
\* twice, the relationship insight iff its group's occur at least twice,
\* and the emitted insights come in that order.
C10_InsightRules ==
  HasResult =>
    LET out == lastResult.cultural_analysis
        Has(t) == \E i \in DOMAIN out : out[i].title = t
    IN /\ Has("Patron de Consulta Elevado")
            <=> Occurrences(lastResult.answers, consultationFlags) >= 3
       /\ Has("Alta Aversion al Riesgo")
            <=> Occurrences(lastResult.answers, riskFlags) >= 2
       /\ Has("Influencia Relacional")
            <=> Occurrences(lastResult.answers, relationshipFlags) >= 2
       /\ \A i, j \in DOMAIN out :
            i < j => InsightRank(out[i].title) < InsightRank(out[j].title)

\* A session whose flags trigger all three insights has been scored.
C10_Witness ==
  /\ HasResult
  /\ Len(lastResult.cultural_analysis) = 3
  /\ Occurrences(lastResult.answers, consultationFlags) >= 3

(* ----------------------- the leaderboard alone ------------------------ *)
\* Entries added, before the page is opened, to the seeded list.
PrefillCount == 90
\* Writes to the leaderboard on the page.
MaxInserts == 5

\* The scores written on the page: the lowest stored one and a middle one.
BoardScores == {40, 77}

\* The i-th entry added before the page is opened.
prefillData(i) ==
  [score |-> 40 + ((i * 7) % 50), category |-> Category(40 + ((i * 7) % 50)),
   sector |-> "tecnologia", position |-> "senior", region |-> "gba"]

\* The entries addEntry built for prefillData(1), ..., prefillData(PrefillCount),
\* one per clock reading.
prefillEntries == [i \in 1..PrefillCount |-> newEntry(prefillData(i), 1 + i)]

\* The store after those calls on the seeded list: with distinct timestamps
\* sorting and cutting after every call leaves what sorting and cutting
\* once leaves.
Prefilled ==
  [list |-> Slice(Sort("leaderboard", sampleEntries(1) \o prefillEntries), maxEntries),
   all |-> sampleEntries(1) \o prefillEntries]

\* What addEntry is called with: a complete result, and one that gives its
\* own timestamp and leaves the sector blank and the rest out.
AddEntryInputs ==
  { [score |-> 40, category |-> Category(40), sector |-> "fintech",
     position |-> "director", region |-> "caba"],
    [score |-> 77, category |-> Category(77), sector |-> "", timestamp |-> 2] }

\* Ten answers that add up to p.
sessionScoring(p) ==
  [i \in 1..10 |-> scoredAnswer(i, IF i <= p % 10 THEN (p \div 10) + 1 ELSE p \div 10)]

\* addEntry(gameData), with saveLeaderboardData and updateAnalytics
AddEntry(gameData) ==
  /\ boardWrites < MaxInserts
  /\ now' = now + 1
  /\ lsLeaderboard' = addEntryList(getLeaderboardData, gameData, now')
  /\ lsAnalytics' = updateAnalytics(lsLeaderboard', now')
  /\ boardOp' = [op |-> "addEntry", arg |-> gameData, at |-> now',
                 entry |-> newEntry(gameData, now')]
  /\ boardBefore' = getLeaderboardData
  /\ everInserted' = Append(everInserted, boardOp'.entry)
  /\ boardWrites' = boardWrites + 1
  /\ malformed' = malformed \ {"flai_leaderboard"}
  /\ UNCHANGED << gameVars, lsResearch, otherKeys, sessions, deviations, waiting,
                  serverVars >>

\* The end of a session that scored p: calculateResults and saveGameData
SaveResult(p, profile) ==
  /\ boardWrites < MaxInserts
  /\ now' = now + 1
  /\ lastResult' = calculateResults(sessionScoring(p), profile)
  /\ saveGameData(lastResult', profile, now')
  /\ UNCHANGED << screen, currentScenario, answers, userProfile, timeLeft, timer,
                  intervals, pendingAdvance, pendingEnd, sessions, deviations,
                  waiting, serverVars >>

\* The page is opened on the seeded store or on a store holding the seeds
\* and PrefillCount earlier entries.
InitBoard ==
  /\ FreshPage
  /\ answers = << >>
  /\ \/ SeededStore
     \/ /\ lsLeaderboard = Prefilled.list
        /\ lsAnalytics = updateAnalytics(lsLeaderboard, 1 + PrefillCount)
        /\ boardOp = [op |-> "addEntry"]
        /\ boardBefore = << >>
        /\ everInserted = Prefilled.all
        /\ boardWrites = 0

NextBoard ==
  \/ \E gameData \in AddEntryInputs : AddEntry(gameData)
  \/ \E p \in BoardScores :
       SaveResult(p, [sector |-> "retail", position |-> "gerente",
                      experience |-> "3-5", region |-> "rosario",
                      timestamp |-> now, session_id |-> generateSessionId(now)])

SpecBoard == InitBoard /\ [][NextBoard]_vars

(* ------------------------ session runner claims ----------------------- *)

\* C2: every Result the session runner produces has a percentage in
\* [0, 100], equal to round(total_score / 100 * 100).
C2_PercentageInRange ==
  HasResult =>
    /\ lastResult.percentage \in 0..100
    /\ lastResult.percentage = MathRound(lastResult.total_score * 100, 100)

\* C3: whenever calculateResults runs, the answers are exactly ten, for the
\* scenarios 1, 2, ..., 10 in that order.
C3_OneAnswerPerScenario ==
  HasResult =>
    [i \in DOMAIN lastResult.answers |-> lastResult.answers[i].scenario_id]
      = << 1, 2, 3, 4, 5, 6, 7, 8, 9, 10 >>

\* C4: the runner only moves Welcome -> Running(0..9) -> Loading -> Results
\* -> Welcome: the index grows by one at a time (or is reset to 0) and never
\* exceeds 10, Loading is entered only with the index at 10, Results only
\* from Loading, Welcome only from Results.
C4_StateOrder ==
  [][/\ currentScenario' <= 10
     /\ currentScenario' \in {currentScenario, currentScenario + 1, 0}
     /\ (screen' = "game" /\ screen # "game" => screen = "welcome")
     /\ (screen' = "loading" /\ screen # "loading" =>
           screen = "game" /\ currentScenario' = 10)
     /\ (screen' = "results" /\ screen # "results" => screen = "loading")
     /\ (screen' = "welcome" /\ screen # "welcome" => screen = "results")]_vars

\* C5: at most one countdown interval is live, this.timer names it, and none
\* is live on the welcome, loading and results screens.
C5_OneCountdown ==
  /\ Cardinality(intervals) <= 1
  /\ intervals \subseteq {timer}
  /\ screen \in {"welcome", "loading", "results"} => intervals = {}

\* C6: a session that reaches its end is stored exactly once: one research
\* record per session_id, one leaderboard entry with it, and the session
\* whose results are on screen has its record.
C6_OneRecordPerSession ==
  /\ \A i, j \in DOMAIN lsResearch :
       i # j => Get(lsResearch[i], "session_id") # Get(lsResearch[j], "session_id")
  /\ Len(lsLeaderboard) = Len(sampleEntries(0)) + Len(lsResearch)
  /\ screen = "results" =>
       \E i \in DOMAIN lsResearch :
         Get(lsResearch[i], "session_id") = Get(userProfile, "session_id")

(* ------------------------- leaderboard claims ------------------------- *)
\* The last write to flai_leaderboard was made by op.
WrittenBy(op) == boardOp.op = op /\ "entry" \in DOMAIN boardOp

\* Occurrences of x in s.
Times(s, x) == Cardinality({i \in DOMAIN s : s[i] = x})

\* Entries of s scoring at least v.
AtLeast(s, v) == Cardinality({i \in DOMAIN s : s[i].score >= v})

\* The scores of the entries of s.
ScoresOf(s) == {s[i].score : i \in DOMAIN s}

\* A count of entries, as far as the list can hold them.
Capped(n) == IF n < maxEntries THEN n ELSE maxEntries

\* a is not behind b in the order the specification gives the list:
\* higher score first, equal scores most recent first.
NotBehind(a, b) ==
  a.score > b.score \/ (a.score = b.score /\ a.timestamp >= b.timestamp)

SortedMostRecentFirst(s) ==
  \A i \in 1..(Len(s) - 1) : NotBehind(s[i], s[i + 1])

\* The entry the specification has addEntry build from its argument at time t.
EntryFor(arg, t) ==
  LET Given(key) == key \in DOMAIN arg /\ arg[key] # ""
  IN [score |-> arg.score,
      category |-> arg.category,
      sector |-> IF Given("sector") THEN arg.sector ELSE "no_especificado",
      position |-> IF Given("position") THEN arg.position ELSE "no_especificado",
      region |-> IF Given("region") THEN arg.region ELSE "no_especificado",
      timestamp |-> IF "timestamp" \in DOMAIN arg THEN arg.timestamp ELSE t,
      verified |-> FALSE]

\* C7: after addEntry(result) the stored list is the previously stored
\* entries plus one entry built from the result, sorted by descending score
\* with equal scores most recent first, cut to its first maxEntries entries.
C7_AddEntryPostcondition ==
  WrittenBy("addEntry") =>
    LET all == Append(boardBefore, EntryFor(boardOp.arg, boardOp.at))
        kept == lsLeaderboard
        Left(x) == Times(all, x) - Times(kept, x)
    IN /\ Len(kept) = (IF Len(all) < maxEntries THEN Len(all) ELSE maxEntries)
       /\ SortedMostRecentFirst(kept)
       /\ \A i \in DOMAIN kept : Times(all, kept[i]) >= Times(kept, kept[i])
       /\ \A i \in DOMAIN all :
            Left(all[i]) > 0 => NotBehind(kept[Len(kept)], all[i])

\* addEntry has put an entry in front of an older one of the same score in
\* a full list, and the list's last entry has gone.
C7_Witness ==
  /\ WrittenBy("addEntry")
  /\ Len(boardBefore) = maxEntries
  /\ Len(lsLeaderboard) = maxEntries
  /\ \E i \in 1..(maxEntries - 1) :
       /\ lsLeaderboard[i] = EntryFor(boardOp.arg, boardOp.at)
       /\ lsLeaderboard[i + 1].score = lsLeaderboard[i].score
       /\ lsLeaderboard[i + 1].timestamp < lsLeaderboard[i].timestamp
  /\ boardBefore[maxEntries] # lsLeaderboard[maxEntries]

\* C8: the stored list never holds more than maxEntries entries; a write
\* leaves out only entries scoring no more than every entry it keeps; and
\* of all the entries ever inserted the list holds the highest-scoring
\* maxEntries (so after maxEntries + 5 insertions the 5 lowest scores are
\* the absent ones).
C8_CapAndEviction ==
  /\ Len(lsLeaderboard) <= maxEntries
  /\ "entry" \in DOMAIN boardOp =>
       LET all == Append(boardBefore, boardOp.entry)
       IN \A v \in ScoresOf(all) : AtLeast(lsLeaderboard, v) = Capped(AtLeast(all, v))
  /\ \A v \in ScoresOf(everInserted) :
       AtLeast(lsLeaderboard, v) = Capped(AtLeast(everInserted, v))

\* maxEntries + 5 entries have been inserted, by both writers, and the list
\* holds maxEntries of them.
C8_Witness ==
  /\ Len(everInserted) = maxEntries + 5
  /\ Len(lsLeaderboard) = maxEntries
  /\ WrittenBy("saveGameData")
  /\ \E i \in DOMAIN everInserted :
       AtLeast(lsLeaderboard, everInserted[i].score) = maxEntries

\* C9: whichever writer wrote it, the stored list is ordered by descending
\* score with equal scores most recent first, and an entry left out on
\* overflow is no more recent than the kept entries of its score.
C9_SortedOldestEvicted ==
  /\ SortedMostRecentFirst(lsLeaderboard)
  /\ "entry" \in DOMAIN boardOp =>
       LET all == Append(boardBefore, boardOp.entry)
       IN \A i \in DOMAIN all :
            Times(all, all[i]) > Times(lsLeaderboard, all[i]) =>
              \A k \in DOMAIN lsLeaderboard :
                lsLeaderboard[k].score = all[i].score =>
                  lsLeaderboard[k].timestamp >= all[i].timestamp

(* ------------------------- the default insight ------------------------ *)
\* Sessions, complete or cut short, in which every scenario was skipped or
\* timed out.
SkipTimeoutInputs ==
  UNION { { [i \in 1..n |-> IF c[i] = "skipped" THEN skippedAnswer(i - 1)
                                               ELSE timeoutAnswer(i - 1)] :
              c \in [1..n -> {"skipped", "timeout"}] } :
          n \in 0..Len(scenarios) }

InitDefault ==
  /\ FreshPage
  /\ answers \in FlagInputs \cup SkipTimeoutInputs
  /\ SeededStore

SpecDefault == InitDefault /\ [][NextScore]_vars

\* C11: the insight list is never empty; it holds 'Perfil Equilibrado' iff
\* none of the three flag groups reaches its minimum, and then holds nothing
\* else; answers with no flag of any group give exactly that one insight.
C11_DefaultInsight ==
  HasResult =>
    LET out == lastResult.cultural_analysis
        ans == lastResult.answers
        triggered == \/ Occurrences(ans, consultationFlags) >= 3
                     \/ Occurrences(ans, riskFlags) >= 2
                     \/ Occurrences(ans, relationshipFlags) >= 2
        default == [title |-> "Perfil Equilibrado"]
    IN /\ Len(out) >= 1
       /\ (\E i \in DOMAIN out : out[i] = default) <=> ~triggered
       /\ ~triggered => out = << default >>
       /\ Occurrences(ans, consultationFlags \cup riskFlags \cup relationshipFlags) = 0
            => out = << default >>

\* A complete session of skips and timeouts only has been scored and got
\* the default insight alone.
C11_Witness ==
  /\ HasResult
  /\ Len(lastResult.answers) = Len(scenarios)
  /\ \E i, j \in DOMAIN lastResult.answers :
       /\ lastResult.answers[i].option_type = "skipped"
       /\ lastResult.answers[j].option_type = "timeout"
  /\ \A i \in DOMAIN lastResult.answers :
       lastResult.answers[i].option_type \in {"skipped", "timeout"}
  /\ lastResult.cultural_analysis = << [title |-> "Perfil Equilibrado"] >>

(* --------------------- the stored collections, read -------------------- *)
\* Calls made from outside in one run of the page.
MaxOps == 3
\* Sessions ended in one run of the page.
MaxStored == 2
\* Stored texts that get corrupted.
MaxCorrupt == 1

\* trackShareEvent keeps the last 100 events, trackPageVisit the last 50 visits.
shareEventsCap == 100
pageVisitsCap == 50

\* The keys that hold a JSON list.
StoredLists ==
  {"flai_leaderboard", "flai_research_data", "flai_share_events",
   "flai_page_visits", "flai_referrals"}

\* array.slice(-n)
SliceLast_oldest(s, n) == SubSeq(s, 1, IF Len(s) > n THEN n ELSE Len(s))

\* array.slice(-n)
SliceLast(s, n) == SubSeq(s, IF Len(s) > n THEN Len(s) - n + 1 ELSE 1, Len(s))

\* getGameSessionsData's projection of one stored session (game_duration is
\* left out of the stored record, the answers carry no timestamp).
gameSession(session) ==
  [session_id |-> Get(session, "session_id"),
   timestamp |-> session.timestamp,
   demographics |-> session.demographics,
   performance |-> [total_score |-> session.results.total_score,
                    percentage |-> session.results.percentage,
                    avg_response_time |-> session.results.avg_response_time,
                    decision_breakdown |-> session.results.decision_types],
   decisions |-> [i \in DOMAIN session.answers |->
                    [scenario_id |-> session.answers[i].scenario_id,
                     decision_type |-> session.answers[i].option_type,
                     cultural_flags |-> session.answers[i].cultural_flags,
                     response_time |-> session.answers[i].time_taken]]]

\* FLAIDataExport.getGameSessionsData(): [] when the text does not parse
getGameSessionsData ==
  IF "flai_research_data" \in malformed THEN << >>
  ELSE [i \in DOMAIN lsResearch |-> gameSession(lsResearch[i])]

\* The three JSON.parse calls of either getViralAnalytics share one try.
viralParseThrows ==
  {"flai_share_events", "flai_page_visits", "flai_referrals"} \cap malformed # {}

\* FLAIDataExport.getViralAnalytics()
exportViralAnalytics ==
  IF viralParseThrows
    THEN [share_events |-> << >>, page_visits |-> << >>, referrals |-> << >>]
    ELSE [share_events |-> lsShareEvents, page_visits |-> lsPageVisits,
          referrals |-> lsReferrals]

\* SocialShare.getViralAnalytics(): null when a text does not parse
shareViralAnalytics ==
  IF viralParseThrows
    THEN [null |-> TRUE]
    ELSE [share_events |-> lsShareEvents, page_visits |-> lsPageVisits,
          referrals |-> lsReferrals, session_id |-> getSessionId]

\* A call that only reads: what it returned is recorded.
ReadCall(op, result) ==
  /\ opsDone < MaxOps
  /\ opsDone' = opsDone + 1
  /\ lastCall' = [op |-> op, result |-> result, raised |-> FALSE]
  /\ UNCHANGED << gameVars, storeVars, envVars, histVars, remote, lastForwarded >>

GetLeaderboardData == ReadCall("getLeaderboardData", getLeaderboardData)
GetGameSessionsData == ReadCall("getGameSessionsData", getGameSessionsData)
GetViralAnalytics == ReadCall("FLAIDataExport.getViralAnalytics", exportViralAnalytics)
GetViralAnalyticsShare == ReadCall("SocialShare.getViralAnalytics", shareViralAnalytics)

\* trackShareEvent(platform, context)
TrackShareEvent(platform, context) ==
  /\ opsDone < MaxOps
  /\ opsDone' = opsDone + 1
  /\ now' = now + 1
  /\ lastCall' = [op |-> "trackShareEvent", arg |-> shareEvent(platform, context, now'),
                  raised |-> FALSE]
  /\ lsShareEvents' =
       IF "flai_share_events" \in malformed THEN lsShareEvents
       ELSE SliceLast(Append(lsShareEvents, shareEvent(platform, context, now')),
                      shareEventsCap)
  /\ UNCHANGED << gameVars, lsLeaderboard, lsAnalytics, lsResearch, lsPageVisits,
                  lsReferrals, lsLastBackup, malformed, sessions, deviations,
                  waiting, histVars, remote, lastForwarded >>

\* trackPageVisit()
TrackPageVisit ==
  /\ opsDone < MaxOps
  /\ opsDone' = opsDone + 1
  /\ now' = now + 1
  /\ lastCall' = [op |-> "trackPageVisit", arg |-> pageVisit(now'), raised |-> FALSE]
  /\ lsPageVisits' =
       IF "flai_page_visits" \in malformed THEN lsPageVisits
       ELSE SliceLast(Append(lsPageVisits, pageVisit(now')), pageVisitsCap)
  /\ UNCHANGED << gameVars, lsLeaderboard, lsAnalytics, lsResearch, lsShareEvents,
                  lsReferrals, lsLastBackup, malformed, sessions, deviations,
                  waiting, histVars, remote, lastForwarded >>

\* The text under a key is overwritten, from outside the page's code, by
\* something JSON.parse rejects.
Corrupt(key) ==
  /\ Cardinality(malformed) < MaxCorrupt
  /\ malformed' = malformed \cup {key}
  /\ lastCall' = [op |-> "corrupt", arg |-> key]
  /\ UNCHANGED << gameVars, lsLeaderboard, lsAnalytics, lsResearch, otherKeys,
                  envVars, histVars, remote, lastForwarded, opsDone >>

\* The profile of the sessions ended in this part.
storedProfile ==
  [sector |-> "retail", position |-> "gerente", experience |-> "3-5",
   region |-> "rosario", timestamp |-> now, session_id |-> generateSessionId(now)]

\* A session ends: endGame's delayed callback.
EndSession(p) ==
  /\ boardWrites < MaxStored
  /\ SaveResult(p, storedProfile)

NextStore ==
  \/ \E p \in BoardScores : EndSession(p)
  \/ \E key \in StoredLists : Corrupt(key)
  \/ TrackShareEvent("linkedin", "social_button")
  \/ TrackPageVisit
  \/ GetLeaderboardData
  \/ GetGameSessionsData
  \/ GetViralAnalytics
  \/ GetViralAnalyticsShare

SpecStore == Init /\ [][NextStore]_vars

\* The list under a key, an unparseable text read as the empty list.
AsIfEmpty(key, value) == IF key \in malformed THEN << >> ELSE value

\* endGame's callback has run in this step (saveGameData leaves
\* flai_analytics alone, addEntry rewrites it).
SavedGameStep == boardWrites' = boardWrites + 1 /\ lsAnalytics' = lsAnalytics

\* C12: an operation that reads a stored list completes without raising and
\* has the effect and the result it would have had with the empty list under
\* every key whose text does not parse; the well-formed collections are
\* read as they are and left as they are.
C12_MalformedAsEmpty ==
  [][LET research == AsIfEmpty("flai_research_data", lsResearch)
         board == AsIfEmpty("flai_leaderboard", lsLeaderboard)
         viral == [share_events |-> AsIfEmpty("flai_share_events", lsShareEvents),
                   page_visits |-> AsIfEmpty("flai_page_visits", lsPageVisits),
                   referrals |-> AsIfEmpty("flai_referrals", lsReferrals)]
         called(op) == opsDone' = opsDone + 1 /\ lastCall'.op = op
     IN /\ called("getLeaderboardData") =>
             ~lastCall'.raised /\ lastCall'.result = board
        /\ called("getGameSessionsData") =>
             /\ ~lastCall'.raised
             /\ lastCall'.result = [i \in DOMAIN research |-> gameSession(research[i])]
        /\ called("FLAIDataExport.getViralAnalytics") =>
             ~lastCall'.raised /\ lastCall'.result = viral
        /\ called("SocialShare.getViralAnalytics") =>
             /\ ~lastCall'.raised
             /\ "share_events" \in DOMAIN lastCall'.result
             /\ [k \in {"share_events", "page_visits", "referrals"} |->
                   lastCall'.result[k]] = viral
        /\ called("trackShareEvent") =>
             /\ ~lastCall'.raised
             /\ lsShareEvents' = SliceLast(Append(viral.share_events, lastCall'.arg),
                                           shareEventsCap)
             /\ UNCHANGED << lsLeaderboard, lsResearch, lsPageVisits, lsReferrals >>
        /\ called("trackPageVisit") =>
             /\ ~lastCall'.raised
             /\ lsPageVisits' = SliceLast(Append(viral.page_visits, lastCall'.arg),
                                          pageVisitsCap)
             /\ UNCHANGED << lsLeaderboard, lsResearch, lsShareEvents, lsReferrals >>
        /\ SavedGameStep =>
             /\ lsLeaderboard' =
                  saveGameDataList(board, gameDataOf(lastResult',
                                                     lastResult'.user_profile, now'))
             /\ lsResearch' =
                  Append(research, researchDataOf(lastResult',
                                                  lastResult'.user_profile, now'))
             /\ UNCHANGED << lsShareEvents, lsPageVisits, lsReferrals >>
    ]_vars

(* ---------------------- comprehensive analytics ----------------------- *)
\* Clock readings between two calls: none, a second, six hours.
Elapsed == {0, 1, 6 * 60 * 60}

\* daysAgo of getEntriesByDay, with Date.now() = t
daysAgo(entry, t) == (t - entry.timestamp) \div (24 * 60 * 60)

\* getEntriesByDay(data), with Date.now() = t
getEntriesByDay(data, t) ==
  [v \in {daysAgo(data[i], t) : i \in DOMAIN data} |->
     Cardinality({i \in DOMAIN data : daysAgo(data[i], t) = v})]

\* new Date(timestamp).getHours() (the page's zone is UTC)
getHours(timestamp) == (timestamp \div (60 * 60)) % 24

\* getPeakHours(data)
getPeakHours(data) ==
  [v \in {getHours(data[i].timestamp) : i \in DOMAIN data} |->
     Cardinality({i \in DOMAIN data : getHours(data[i].timestamp) = v})]

\* calculateSectorAverages / calculateRegionAverages
calculateGroupAverages(data, key) ==
  [v \in {Get(data[i], key) : i \in DOMAIN data} |->
     MathRound(SumOf(SelectSeq(data, LAMBDA entry : Get(entry, key) = v), "score"),
               Cardinality({i \in DOMAIN data : Get(data[i], key) = v}))]

\* What the call leaves under flai_analytics, were it to store what
\* saveLeaderboardData stores.
analyticsAfterRead_refreshed(analytics, leaderboard, t) ==
  updateAnalytics(leaderboard, t)

\* What getComprehensiveAnalytics leaves under flai_analytics: it stores
\* nothing.
analyticsAfterRead(analytics, leaderboard, t) == analytics

\* getComprehensiveAnalytics(), with Date.now() = t: the counts per sector
\* and region and the score distribution come from flai_analytics, the rest
\* from the list.
getComprehensiveAnalytics(leaderboard, analytics, t) ==
  [leaderboard_summary |->
     [total_entries |-> Len(leaderboard),
      average_score |-> analytics.average_score,
      top_10_average |-> calculateAverageScore(Slice(leaderboard, 10)),
      score_distribution |-> analytics.score_distribution],
   demographic_breakdown |->
     [by_sector |-> analytics.sector_distribution,
      by_region |-> analytics.region_distribution,
      by_position |-> calculateDistribution(leaderboard, "position")],
   temporal_patterns |->
     [entries_by_day |-> getEntriesByDay(leaderboard, t),
      peak_hours |-> getPeakHours(leaderboard)],
   performance_insights |->
     [sector_averages |-> calculateGroupAverages(leaderboard, "sector"),
      region_averages |-> calculateGroupAverages(leaderboard, "region")]]

\* A call of getComprehensiveAnalytics, elapsed after the last clock reading.
\* The record keeps what the call saw and, when the call before it was the
\* same call on the same store, what that one returned.
GetComprehensiveAnalytics(elapsed) ==
  /\ opsDone < MaxOps
  /\ opsDone' = opsDone + 1
  /\ now' = now + elapsed
  /\ lsAnalytics' = analyticsAfterRead(lsAnalytics, getLeaderboardData, now')
  /\ lastCall' =
       [op |-> "getComprehensiveAnalytics",
        result |-> getComprehensiveAnalytics(getLeaderboardData, lsAnalytics, now'),
        raised |-> FALSE,
        seen |-> << getLeaderboardData, lsAnalytics >>,
        repeated |-> /\ lastCall.op = "getComprehensiveAnalytics"
                     /\ lastCall.seen = << getLeaderboardData, lsAnalytics >>,
        prior |-> IF lastCall.op = "getComprehensiveAnalytics"
                    THEN lastCall.result ELSE NoCall]
  /\ UNCHANGED << gameVars, lsLeaderboard, lsResearch, otherKeys, malformed,
                  sessions, deviations, waiting, histVars, remote, lastForwarded >>

\* addEntry called on the page.
AddResult(gameData) ==
  /\ boardWrites < MaxStored
  /\ AddEntry(gameData)

NextAnalytics ==
  \/ \E p \in BoardScores : EndSession(p)
  \/ \E gameData \in AddEntryInputs : AddResult(gameData)
  \/ \E elapsed \in Elapsed : GetComprehensiveAnalytics(elapsed)

SpecAnalytics == Init /\ [][NextAnalytics]_vars

(* ------------------ claims: comprehensive analytics ------------------- *)
\* The step is a call of getComprehensiveAnalytics.
ComprehensiveCall ==
  /\ opsDone' = opsDone + 1
  /\ lastCall'.op = "getComprehensiveAnalytics"

\* The last call was getComprehensiveAnalytics, directly after another call
\* of it with nothing written in between.
CalledTwice ==
  /\ lastCall.op = "getComprehensiveAnalytics"
  /\ lastCall.repeated

\* The counts per sector, region and position, the averages, the score
\* distribution and the counts per hour of two results agree.
SameGroups(a, b) ==
  /\ a.leaderboard_summary = b.leaderboard_summary
  /\ a.demographic_breakdown = b.demographic_breakdown
  /\ a.performance_insights = b.performance_insights
  /\ a.temporal_patterns.peak_hours = b.temporal_patterns.peak_hours

RECURSIVE SumValues(_)
SumValues(f) ==
  IF DOMAIN f = {} THEN 0
  ELSE LET k == CHOOSE k \in DOMAIN f : TRUE
       IN f[k] + SumValues([j \in DOMAIN f \ {k} |-> f[j]])

\* counts and averages hold, for every value of key among the entries of
\* list, the number of entries with that value and the mean of their scores
\* to the nearest integer.
GroupsOf(list, key, counts, averages) ==
  \A v \in {Get(list[i], key) : i \in DOMAIN list} :
    LET members == SelectSeq(list, LAMBDA entry : Get(entry, key) = v)
    IN /\ v \in DOMAIN counts
       /\ counts[v] = Len(members)
       /\ v \in DOMAIN averages
       /\ 2 * averages[v] * Len(members) - 2 * SumOf(members, "score") \in
            (0 - Len(members)) .. Len(members)

\* C14: whatever completed sessions and addEntry calls came before, the
\* counts and averages getComprehensiveAnalytics returns per sector and per
\* region are those of the stored list, and the counts per sector and the
\* counts per region each sum to total_entries.
C14_GroupsMatchStoredList ==
  lastCall.op = "getComprehensiveAnalytics" =>
    LET r == lastCall.result
        list == lastCall.seen[1]
    IN /\ r.leaderboard_summary.total_entries = Len(list)
       /\ GroupsOf(list, "sector", r.demographic_breakdown.by_sector,
                   r.performance_insights.sector_averages)
       /\ GroupsOf(list, "region", r.demographic_breakdown.by_region,
                   r.performance_insights.region_averages)
       /\ SumValues(r.demographic_breakdown.by_sector) = Len(list)
       /\ SumValues(r.demographic_breakdown.by_region) = Len(list)

(* ----------------------- the ingestion handler ------------------------ *)
\* Requests handled in one run.
MaxRequests == 2

\* A truthy timestamp that new Date() cannot represent (a text that is no
\* date, a number beyond the range of Date): toISOString() throws on it.
InvalidTime == 0 - 3

\* new Date(t).toISOString() throws a RangeError
ThrowsRangeError(obj, key) == key \notin DOMAIN obj \/ obj[key] = InvalidTime

\* new Date(t).toISOString()
ToISOString(t) == [iso |-> t]

\* !obj[key] is false: for a property holding an object when present, and
\* for one holding a number or a text when present.
TruthyObject(obj, key) == key \in DOMAIN obj
TruthyNumber(obj, key) == key \in DOMAIN obj /\ obj[key] # 0

\* The headers every return statement of exports.handler carries.
corsHeaders ==
  [Access_Control_Allow_Origin |-> "*",
   Access_Control_Allow_Headers |-> "Content-Type, X-Source, X-Version",
   Access_Control_Allow_Methods |-> "POST, OPTIONS",
   Content_Type |-> "application/json"]

\* upsert(row, {onConflict: key}): the row with the same key is replaced,
\* otherwise the row is added.
upsert(table, row, key) ==
  IF \E i \in DOMAIN table : table[i][key] = row[key]
    THEN [i \in DOMAIN table |-> IF table[i][key] = row[key] THEN row ELSE table[i]]
    ELSE Append(table, row)

\* The for loops of the handler: the rows are made and upserted one by one,
\* and the loop ends where making a row throws.
RECURSIVE upsertEach(_, _, _, _, _, _)
upsertEach(store, table, items, rows, key, i) ==
  IF store.threw \/ i > Len(items) THEN store
  ELSE IF ThrowsRangeError(items[i], "timestamp")
    THEN [store EXCEPT !.threw = TRUE, !.message = "Invalid time value"]
  ELSE upsertEach([store EXCEPT ![table] = upsert(store[table], rows[i], key)],
                  table, items, rows, key, i + 1)

\* The rows the handler writes.
sessionRow(session, serverNow) ==
  [session_id |-> Get(session, "session_id"),
   timestamp |-> ToISOString(session.timestamp),
   demographics |-> session.demographics,
   performance |-> session.performance,
   decisions |-> session.decisions,
   created_at |-> ToISOString(serverNow)]

shareRow(event) ==
  [event_id |-> << event.session_id, event.timestamp >>,
   type |-> "share",
   platform |-> event.platform,
   context |-> event.context,
   timestamp |-> ToISOString(event.timestamp),
   session_id |-> event.session_id,
   url |-> event.url,
   referrer |-> event.referrer]

visitRow(visit) ==
  [visit_id |-> << visit.session_id, visit.timestamp >>,
   page |-> visit.page,
   timestamp |-> ToISOString(visit.timestamp),
   referrer |-> visit.referrer,
   user_agent |-> visit.user_agent,
   session_id |-> visit.session_id]

snapshotRow(data) ==
  [export_id |-> Get(data, "export_id"),
   timestamp |-> ToISOString(data.timestamp),
   version |-> Get(data, "version"),
   aggregated_stats |-> Get(data.data, "aggregated_stats")]

\* A statement of the handler throws: the writes made so far stay.
Throw(store, message) == [store EXCEPT !.threw = TRUE, !.message = message]

\* Lines 52-67
storeSessions(store, data, serverNow) ==
  IF "game_sessions" \notin DOMAIN data.data THEN store
  ELSE upsertEach(store, "game_sessions", data.data.game_sessions,
                  [i \in DOMAIN data.data.game_sessions |->
                     sessionRow(data.data.game_sessions[i], serverNow)],
                  "session_id", 1)

\* Lines 70-91
storeShares(store, data) ==
  IF store.threw \/ "viral_analytics" \notin DOMAIN data.data THEN store
  ELSE IF "share_events" \notin DOMAIN data.data.viral_analytics
    THEN Throw(store, "Cannot read properties of undefined (reading 'length')")
  ELSE upsertEach(store, "viral_events", data.data.viral_analytics.share_events,
                  [i \in DOMAIN data.data.viral_analytics.share_events |->
                     shareRow(data.data.viral_analytics.share_events[i])],
                  "event_id", 1)

\* Lines 93-110
storeVisits(store, data) ==
  IF store.threw \/ "viral_analytics" \notin DOMAIN data.data THEN store
  ELSE IF "page_visits" \notin DOMAIN data.data.viral_analytics
    THEN Throw(store, "Cannot read properties of undefined (reading 'length')")
  ELSE upsertEach(store, "page_visits", data.data.viral_analytics.page_visits,
                  [i \in DOMAIN data.data.viral_analytics.page_visits |->
                     visitRow(data.data.viral_analytics.page_visits[i])],
                  "visit_id", 1)

\* Lines 112-122
storeSnapshot(store, data) ==
  IF store.threw THEN store
  ELSE IF ThrowsRangeError(data, "timestamp") THEN Throw(store, "Invalid time value")
  ELSE [store EXCEPT !.data_snapshots = Append(store.data_snapshots, snapshotRow(data))]

\* Lines 47-123: what the handler does to the tables when Supabase is
\* configured, each block working on what the one before left. threw: an
\* exception left the block, after the writes made before it.
storeData(data, tables, serverNow) ==
  CHOOSE stored \in
    {storeSnapshot(visited, data) : visited \in
      {storeVisits(shared, data) : shared \in
        {storeShares(saved, data) : saved \in
          {storeSessions([threw |-> FALSE, message |-> ""] @@ tables,
                         data, serverNow)}}}} : TRUE

\* array?.length || 0
LengthOrZero(obj, key) == IF key \in DOMAIN obj THEN Len(obj[key]) ELSE 0

\* The tables of a storeData result.
TablesOf(stored) ==
  [game_sessions |-> stored.game_sessions, viral_events |-> stored.viral_events,
   page_visits |-> stored.page_visits, data_snapshots |-> stored.data_snapshots]

\* exports.handler(event): the response and the tables it leaves. The body
\* of the event is the text received: no JSON, the JSON null, or a JSON
\* object (value).
handler(event, configured, tables, serverNow) ==
  LET Respond(status, body, left) ==
        [response |-> [statusCode |-> status, headers |-> corsHeaders, body |-> body],
         tables |-> left]
      ServerError(message, left) ==
        Respond(500, [error |-> "Internal server error", message |-> message], left)
  IN IF event.httpMethod = "OPTIONS" THEN Respond(200, [text |-> ""], tables)
     ELSE IF event.httpMethod # "POST"
       THEN Respond(405, [error |-> "Method not allowed"], tables)
     ELSE IF event.body.json = "invalid"
       THEN ServerError("Unexpected token", tables)
     ELSE IF event.body.json = "null"
       THEN ServerError("Cannot read properties of null (reading 'data')", tables)
     ELSE LET data == event.body.value
          IN IF ~TruthyObject(data, "data") \/ ~TruthyNumber(data, "timestamp")
               THEN Respond(400, [error |-> "Invalid data structure"], tables)
             ELSE LET stored == IF configured
                                  THEN storeData(data, tables, serverNow)
                                  ELSE [threw |-> FALSE] @@ tables
                  IN IF stored.threw
                       THEN ServerError(stored.message, TablesOf(stored))
                     ELSE IF ThrowsRangeError(data, "timestamp")
                       THEN ServerError("Invalid time value", TablesOf(stored))
                     ELSE Respond(200,
                            DropUndefined(
                              [success |-> TRUE,
                               message |-> "Data received successfully",
                               export_id |-> Get(data, "export_id"),
                               processed_at |-> ToISOString(serverNow),
                               stats |->
                                 [sessions |-> LengthOrZero(data.data, "game_sessions"),
                                  decisions |->
                                    IF "aggregated_stats" \in DOMAIN data.data
                                      THEN data.data.aggregated_stats.total_decisions
                                      ELSE 0,
                                  shares |->
                                    IF "viral_analytics" \in DOMAIN data.data
                                      THEN LengthOrZero(data.data.viral_analytics,
                                                        "share_events")
                                      ELSE 0]],
                              {"export_id"}),
                            TablesOf(stored))

\* The methods, payloads and timestamps of the requests sent to the handler.
Methods == {"POST", "OPTIONS", "GET", "PUT"}

requestSession(t) ==
  [session_id |-> "flai_1", timestamp |-> t,
   demographics |-> [sector |-> "retail"],
   performance |-> [total_score |-> 77, percentage |-> 77],
   decisions |-> << >>]

Payloads ==
  { EmptyObject,
    [viral_analytics |-> EmptyObject],
    [game_sessions |-> << requestSession(InvalidTime) >>],
    [game_sessions |-> << requestSession(1) >>,
     viral_analytics |-> [share_events |-> << shareEvent("linkedin", "results", 2) >>,
                          page_visits |-> << pageVisit(1) >>,
                          referrals |-> << >>],
     aggregated_stats |-> [total_decisions |-> 10]] }

Absent == [present |-> FALSE]

Present(value) == [present |-> TRUE, value |-> value]

\* The JSON object with the chosen properties.
ObjectBody(data, timestamp) ==
  [json |-> "object",
   value |->
     [k \in {"export_id", "version"}
            \cup (IF data.present THEN {"data"} ELSE {})
            \cup (IF timestamp.present THEN {"timestamp"} ELSE {}) |->
        CASE k = "export_id" -> "export_1"
          [] k = "version" -> "1.0"
          [] k = "data" -> data.value
          [] k = "timestamp" -> timestamp.value]]

Bodies ==
  {[json |-> "invalid", value |-> EmptyObject], [json |-> "null", value |-> EmptyObject]}
    \cup {ObjectBody(data, timestamp) :
            data \in {Absent} \cup {Present(p) : p \in Payloads},
            timestamp \in {Absent, Present(0), Present(5), Present(InvalidTime)}}

\* A request arrives and exports.handler answers it.
Request(event, configured) ==
  /\ opsDone < MaxRequests
  /\ opsDone' = opsDone + 1
  /\ now' = now + 1
  /\ LET answered == handler(event, configured, remote, now')
     IN /\ remote' = answered.tables
        /\ lastCall' = [op |-> "handler", event |-> event, configured |-> configured,
                        response |-> answered.response]
  /\ UNCHANGED << gameVars, storeVars, sessions, deviations, waiting, histVars,
                  lastForwarded >>

NextHandler ==
  \E httpMethod \in Methods, body \in Bodies, configured \in BOOLEAN :
    Request([httpMethod |-> httpMethod, body |-> body], configured)

SpecHandler == Init /\ [][NextHandler]_vars

(* ----------------------- claims: the handler -------------------------- *)
\* The parsed body has no truthy value under key.
Lacks(body, key) ==
  \/ body.json = "null"
  \/ key \notin DOMAIN body.value
  \/ (key = "timestamp" /\ body.value[key] = 0)

getAggregatedStats ==
  LET stored == getGameSessionsData
      sizes == [i \in DOMAIN stored |->
                  [decisions |-> Len(stored[i].decisions),
                   percentage |-> stored[i].performance.percentage]]
  IN [total_sessions |-> Len(stored),
      total_decisions |-> SumOf(sizes, "decisions"),
      average_score |-> IF Len(stored) > 0
                          THEN MathRound(SumOf(sizes, "percentage"), Len(stored))
                          ELSE 0,
      viral_metrics |-> [total_shares |-> Len(exportViralAnalytics.share_events),
                         total_referrals |-> Len(exportViralAnalytics.referrals),
                         page_views |-> Len(exportViralAnalytics.page_visits)]]

\* exportAllData(), with Date.now() = t, as the handler parses it from the
\* request body (data.leaderboard and data.cultural_insights, which the
\* handler never reads, are left out).
exportAllData(t) ==
  [timestamp |-> t,
   export_id |-> "export_" \o ToString(t),
   version |-> "1.0",
   data |-> [game_sessions |->
               [i \in DOMAIN getGameSessionsData |->
                  DropUndefined(getGameSessionsData[i], {"session_id"})],
             viral_analytics |-> exportViralAnalytics,
             aggregated_stats |-> getAggregatedStats]]

\* How a request sent by the page ends: the handler answers it, the platform
\* answers it without running the handler (a non-OK status), or the request
\* fails on the network.
FetchOutcomes == {"answered", "unavailable", "network_error"}

\* The value under flai_last_backup after backupToServer, were
\* markDataAsBacked called whatever the response.
lastBackupAfter_unconditional(ok, lastBackup, t) == t

\* The value under flai_last_backup after backupToServer: markDataAsBacked
\* runs only if response.ok.
lastBackupAfter(ok, lastBackup, t) == IF ok THEN t ELSE lastBackup

\* The test before sending, were it to pass whatever was exported.
hasSessions_always(payload) == TRUE

\* data.data.game_sessions.length > 0 (backupToServer returns on === 0)
hasSessions(payload) == Len(payload.data.game_sessions) > 0

\* The handler's answer to the page's data, Supabase being configured.
handled(payload, t) ==
  handler([httpMethod |-> "POST", body |-> [json |-> "object", value |-> payload]],
          TRUE, remote, t)

\* backupToServer(): the interval callback
BackupToServer(outcome) ==
  /\ opsDone < MaxOps
  /\ opsDone' = opsDone + 1
  /\ now' = now + 1
  /\ \E payload \in {exportAllData(now')} :
       \E answered \in {handled(payload, now')} :
         LET sent == hasSessions(payload)
             delivered == sent /\ outcome = "answered"
             ok == delivered /\ answered.response.statusCode \in 200..299
         IN /\ remote' = IF delivered THEN answered.tables ELSE remote
            /\ lsLastBackup' = lastBackupAfter(ok, lsLastBackup, now')
            /\ lastForwarded' = IF ok THEN payload.data ELSE lastForwarded
            /\ lastCall' = [op |-> "backupToServer", sent |-> sent,
                            request |-> IF sent THEN payload.data.game_sessions
                                        ELSE << >>,
                            stored |-> lsResearch, unreadable |-> malformed,
                            beacon |-> TRUE,
                            outcome |-> outcome, ok |-> ok, raised |-> FALSE,
                            again |-> ok /\ lastForwarded = payload.data]
  /\ UNCHANGED << gameVars, lsLeaderboard, lsAnalytics, lsResearch, lsShareEvents,
                  lsPageVisits, lsReferrals, malformed, sessions, deviations,
                  waiting, histVars >>

\* immediateBackup(): beforeunload, or the page becoming hidden, in a
\* browser that has navigator.sendBeacon or lacks it. The beacon is queued;
\* the browser delivers it or not, and its response is dropped.
ImmediateBackup(beacon, delivers) ==
  /\ opsDone < MaxOps
  /\ opsDone' = opsDone + 1
  /\ now' = now + 1
  /\ \E payload \in {exportAllData(now')} :
       \E answered \in {handled(payload, now')} :
         LET sent == beacon /\ hasSessions(payload)
             delivered == sent /\ delivers
             ok == delivered /\ answered.response.statusCode \in 200..299
         IN /\ remote' = IF delivered THEN answered.tables ELSE remote
            /\ lastForwarded' = IF ok THEN payload.data ELSE lastForwarded
            /\ lastCall' = [op |-> "immediateBackup", sent |-> sent,
                            request |-> IF sent THEN payload.data.game_sessions
                                        ELSE << >>,
                            stored |-> lsResearch, unreadable |-> malformed,
                            beacon |-> beacon,
                            outcome |-> IF sent /\ delivers THEN "answered"
                                        ELSE "network_error",
                            ok |-> ok, raised |-> FALSE,
                            again |-> ok /\ lastForwarded = payload.data]
  /\ UNCHANGED << gameVars, storeVars, sessions, deviations, waiting, histVars >>

\* The lists exportAllData sends on, one of each reader.
ForwardedLists == {"flai_research_data", "flai_share_events"}

NextForward ==
  \/ EndSession(40)
  \/ TrackShareEvent("linkedin", "social_button")
  \/ \E key \in ForwardedLists : Corrupt(key)
  \/ \E outcome \in FetchOutcomes : BackupToServer(outcome)
  \/ \E beacon, delivers \in BOOLEAN : ImmediateBackup(beacon, delivers)

SpecForward == Init /\ [][NextForward]_vars

(* ------------------------ claims: forwarding -------------------------- *)
\* The step is a call of backupToServer or immediateBackup.
ForwardCall ==
  /\ opsDone' = opsDone + 1
  /\ lastCall'.op \in {"backupToServer", "immediateBackup"}

\* The number of rows of each remote table.
RowCounts(tables) ==
  [table \in {"game_sessions", "viral_events", "page_visits", "data_snapshots"} |->
     Len(tables[table])]

\* C15: a call of backupToServer or immediateBackup raises nothing and leaves
\* every stored list as it was; unless the forward succeeded it leaves
\* flai_last_backup as it was too.
C15_FailedForwardChangesNothing ==
  [][ForwardCall =>
        /\ ~lastCall'.raised
        /\ UNCHANGED << lsLeaderboard, lsAnalytics, lsResearch, lsShareEvents,
                        lsPageVisits, lsReferrals, malformed >>
        /\ ~lastCall'.ok => UNCHANGED lsLastBackup]_vars

\* backupToServer sent the stored sessions and the request failed, and no
\* backup has been marked.
C15_Witness ==
  /\ lastCall.op = "backupToServer"
  /\ lastCall.sent
  /\ lastCall.outcome \in {"unavailable", "network_error"}
  /\ lsLastBackup = 0

\* C16: a successful forward of the dataset that the last successful forward
\* carried leaves every remote table, the snapshots included, with the rows
\* it had.
C16_RepeatedForwardAddsNothing ==
  [][(ForwardCall /\ lastCall'.again) => RowCounts(remote') = RowCounts(remote)]_vars

\* The stored session list as a call read it: nothing when the text under
\* flai_research_data did not parse.
StoredSessionsAt(call) ==
  IF "flai_research_data" \in call.unreadable THEN << >> ELSE call.stored

\* The request carries every stored session, in stored order.
CarriesAll(call) ==
  /\ Len(call.request) = Len(StoredSessionsAt(call))
  /\ \A i \in DOMAIN call.request :
       /\ call.request[i].timestamp = StoredSessionsAt(call)[i].timestamp
       /\ call.request[i].demographics = StoredSessionsAt(call)[i].demographics
       /\ Len(call.request[i].decisions) = Len(StoredSessionsAt(call)[i].answers)

MaxDownloads == 1

\* A text is a sequence of pieces: "," and "\n" stand for themselves, any
\* other piece for a run of characters holding neither. String(v) of a text
\* property (undefined and '' both give no characters) and of a number
\* (null gives none).
TextOf(obj, key) ==
  IF key \notin DOMAIN obj THEN << >>
  ELSE IF obj[key] = "" \/ obj[key] = Undefined THEN << >>
  ELSE << obj[key] >>

NumberText(n) == IF n = Null THEN << >> ELSE << ToString(n) >>

\* parts.join(sep), over parts[lo..hi]
RECURSIVE JoinRange(_, _, _, _)
JoinRange(parts, sep, lo, hi) ==
  IF lo > hi THEN << >>
  ELSE IF lo = hi THEN parts[lo]
  ELSE JoinRange(parts, sep, lo, (lo + hi) \div 2) \o << sep >>
         \o JoinRange(parts, sep, ((lo + hi) \div 2) + 1, hi)

Join(parts, sep) == JoinRange(parts, sep, 1, Len(parts))

\* text.split(sep)
Split(text, sep) ==
  LET cuts == {0, Len(text) + 1} \cup {i \in DOMAIN text : text[i] = sep}
      cut(k) == CHOOSE c \in cuts : Cardinality({d \in cuts : d < c}) = k - 1
  IN [k \in 1..(Cardinality(cuts) - 1) |-> SubSeq(text, cut(k) + 1, cut(k + 1) - 1)]

\* The header row of the CSV.
csvHeader ==
  [c \in 1..23 |->
     IF c > 13 THEN << "scenario_" \o ToString(c - 13) >>
     ELSE << << "session_id", "timestamp", "sector", "position", "region",
                "experience", "total_score", "percentage", "completion_time",
                "avg_response_time", "ethical_decisions",
                "consultation_decisions", "risky_decisions" >>[c] >>]

\* session.decisions.find(d => d.scenario_id === i), then decision_type or ''
csvDecision(session, i) ==
  LET found == {d \in DOMAIN session.decisions :
                  session.decisions[d].scenario_id = i}
  IN IF found = {} THEN << >>
     ELSE << session.decisions[CHOOSE d \in found : \A e \in found : d <= e].decision_type >>

\* The row of one session (completion_time is undefined).
csvRow(session) ==
  [c \in 1..23 |->
     CASE c = 1 -> TextOf(session, "session_id")
       [] c = 2 -> << "T" \o ToString(session.timestamp) >>
       [] c = 3 -> TextOf(session.demographics, "sector")
       [] c = 4 -> TextOf(session.demographics, "position")
       [] c = 5 -> TextOf(session.demographics, "region")
       [] c = 6 -> TextOf(session.demographics, "experience")
       [] c = 7 -> NumberText(session.performance.total_score)
       [] c = 8 -> NumberText(session.performance.percentage)
       [] c = 9 -> << >>
       [] c = 10 -> NumberText(session.performance.avg_response_time)
       [] c = 11 -> NumberText(session.performance.decision_breakdown.ethical)
       [] c = 12 -> NumberText(session.performance.decision_breakdown.consultation)
       [] c = 13 -> NumberText(session.performance.decision_breakdown.risky)
       [] OTHER -> csvDecision(session, c - 13)]

\* csvContent of downloadCSV for the sessions getGameSessionsData returns
csvContent(exported) ==
  LET csvRows == << csvHeader >> \o [k \in DOMAIN exported |-> csvRow(exported[k])]
  IN Join([r \in DOMAIN csvRows |-> Join(csvRows[r], ",")], "\n")

\* downloadCSV(): an alert and no file when there is no session
DownloadCSV ==
  /\ opsDone < MaxDownloads
  /\ opsDone' = opsDone + 1
  /\ lastCall' = [op |-> "downloadCSV",
                  stored |-> lsResearch,
                  file |-> getGameSessionsData # << >>,
                  text |-> IF getGameSessionsData = << >> THEN << >>
                           ELSE csvContent(getGameSessionsData)]
  /\ UNCHANGED << gameVars, storeVars, envVars, histVars, remote, lastForwarded >>

NextExport ==
  \/ Next
  \/ DownloadCSV

SpecExport == Init /\ [][NextExport]_vars

(* ------------------------- claims: the CSV ---------------------------- *)
\* The rows of a CSV text, each the list of its columns.
ParsedRows(text) ==
  LET lines == Split(text, "\n")
  IN [r \in DOMAIN lines |-> Split(lines[r], ",")]

\* The column of a parsed CSV whose header is name.
ColumnOf(rows, name) == CHOOSE c \in DOMAIN rows[1] : rows[1][c] = << name >>

\* The option types of a stored session's Answers for scenario i.
AnswerTypes(session, i) ==
  {session.answers[a].option_type :
     a \in {b \in DOMAIN session.answers : session.answers[b].scenario_id = i}}

\* C18: the CSV downloadCSV produces has one data row per stored session, in
\* the stored order, and its scenario_i column holds the option_type of the
\* session's Answers for scenario i, and is empty only if there is none.
C18_CsvDecisionTypes ==
  (lastCall.op = "downloadCSV" /\ lastCall.file) =>
    LET rows == ParsedRows(lastCall.text)
    IN /\ Len(rows) = Len(lastCall.stored) + 1
       /\ \A k \in DOMAIN lastCall.stored : \A i \in 1..10 :
            LET column == rows[k + 1][ColumnOf(rows, "scenario_" \o ToString(i))]
                types == AnswerTypes(lastCall.stored[k], i)
            IN IF types = {} THEN column = << >>
               ELSE \A type \in types : column = << type >>

(* ------------------ the scorer on lists of any length ------------------ *)
\* The longest answer list scored.
MaxAnswers == 11

\* Lists of 0..MaxAnswers answers: the first k score a, the others b.
LengthInputs ==
  { [i \in 1..n |-> scoredAnswer(i, IF i <= k THEN a ELSE b)] :
      n \in 0..MaxAnswers, a \in 0..10, b \in {0, 10}, k \in 0..MaxAnswers }

InitLengths ==
  /\ FreshPage
  /\ answers \in LengthInputs
  /\ SeededStore

SpecLengths == InitLengths /\ [][NextScore]_vars

\* C19: for an answer list of any length with scores in 0..10, the
\* percentage is the sum of the scores: the denominator is 100 whatever the
\* number of answers.
C19_FixedDenominator ==
  (HasResult /\ \A i \in DOMAIN answers : answers[i].score \in 0..10) =>
    /\ lastResult.percentage = ScoreTotal(answers)
    /\ lastResult.total_score = ScoreTotal(answers)

\* Five answers of ten points each: 50 percent, not 100.
C19_Witness ==
  /\ HasResult
  /\ Len(answers) = 5
  /\ \A i \in DOMAIN answers : answers[i].score = 10
  /\ lastResult.percentage = 50

\* C20: the category follows the README's ranges: 90-100 Ejemplar, 70-89
\* Solido, 55-69 Mixto, 40-54 Pragmatico, 0-39 Alto Riesgo.
C20_ReadmeRanges ==
  (HasResult /\ lastResult.percentage \in 0..100) =>
    LET p == lastResult.percentage
        category == lastResult.category
    IN /\ p \in 90..100 => category = "Etico Ejemplar"
       /\ p \in 70..89 => category = "Etico Solido"
       /\ p \in 55..69 => category = "Perfil Mixto"
       /\ p \in 40..54 => category = "Perfil Pragmatico"
       /\ p \in 0..39 => category = "Perfil de Alto Riesgo"

(* -------------------------- recorded answers -------------------------- *)
\* Answers recorded in one run.
MaxRecorded == 2

\* The game screen on any scenario, at any reading of the countdown.
InitAnswers ==
  /\ screen = "game"
  /\ currentScenario \in 0..(Len(scenarios) - 1)
  /\ timeLeft \in 0..TimerSeconds
  /\ userProfile = EmptyObject /\ timer = 0 /\ intervals = {}
  /\ pendingAdvance = 0 /\ pendingEnd = << >> /\ lastResult = NoResult
  /\ answers = << >>
  /\ now = 1
  /\ lsResearch = << >>
  /\ sessions = 1 /\ deviations = 0 /\ waiting = FALSE
  /\ lsShareEvents = << >> /\ lsPageVisits = << pageVisit(now) >>
  /\ lsReferrals = << >> /\ lsLastBackup = 0 /\ malformed = {}
  /\ remote = EmptyRemote /\ lastCall = NoCall /\ lastForwarded = << >>
  /\ opsDone = 0
  /\ SeededStore

\* this.answers.push(answer), of selectOption, skipScenario or timeExpired
PushAnswer(answer) ==
  /\ Len(answers) < MaxRecorded
  /\ answers' = Append(answers, answer)
  /\ UNCHANGED << screen, currentScenario, userProfile, timeLeft, timer, intervals,
                  pendingAdvance, pendingEnd, lastResult, storeVars, envVars,
                  histVars, serverVars >>

NextAnswers ==
  \/ \E optionIndex \in 0..2 :
       PushAnswer(selectedAnswer(currentScenario, optionIndex, timeLeft))
  \/ PushAnswer(skippedAnswer(currentScenario))
  \/ PushAnswer(timeoutAnswer(currentScenario))

SpecAnswers == InitAnswers /\ [][NextAnswers]_vars

(* ---------------------- claims: recorded answers ---------------------- *)
\* The scenario of the catalog with the given id.
ScenarioById(id) == CHOOSE s \in {scenarios[k] : k \in DOMAIN scenarios} : s.id = id

\* C21: every recorded Answer scores what its type fixes (ethical 10,
\* consultation 6..8, risky 0..3, skipped and timeout 0), and what the chosen
\* option of the scenario it names scores.
C21_ScoreFixedByType ==
  \A i \in DOMAIN answers :
    LET a == answers[i]
    IN /\ a.option_type = "ethical" => a.score = 10
       /\ a.option_type = "consultation" => a.score \in 6..8
       /\ a.option_type = "risky" => a.score \in 0..3
       /\ a.option_type \in {"skipped", "timeout"} => a.score = 0
       /\ a.scenario_id \in 1..10
       /\ a.score = IF a.selected_option >= 0
                      THEN ScenarioById(a.scenario_id).options[a.selected_option + 1].score
                      ELSE 0

\* A session with an ethical answer and a risky or consultation answer
\* recorded.
C21_Witness ==
  /\ \E i \in DOMAIN answers : answers[i].option_type = "ethical"
  /\ \E i \in DOMAIN answers : answers[i].option_type \in {"risky", "consultation"}

\* C22: every recorded decision has scenario_id in 1..10, selected_option in
\* 0..2, option_type ethical, consultation or risky, and time_taken in 1..30.
C22_DecisionRanges ==
  \A i \in DOMAIN answers :
    /\ answers[i].scenario_id \in 1..10
    /\ answers[i].selected_option \in 0..2
    /\ answers[i].option_type \in {"ethical", "consultation", "risky"}
    /\ answers[i].time_taken \in 1..30

(* ------------------------------ retention ----------------------------- *)
\* cleanOldData's filter, were it to keep every item.
filterRecent_keepsAll(list, cutoff) == list

\* cleanOldData's filter: item => item.timestamp > thirtyDaysAgo (an item
\* without a timestamp compares false and is dropped)
filterRecent(list, cutoff) ==
  SelectSeq(list, LAMBDA item : "timestamp" \in DOMAIN item /\ item.timestamp > cutoff)

\* thirtyDaysAgo of cleanOldData, with Date.now() = t
thirtyDaysAgo(t) == t - 30 * 24 * 60 * 60

\* cleanOldData(): one try block around both lists; the first JSON.parse
\* that throws ends it, and what was written before stays.
CleanOldData ==
  /\ opsDone < MaxOps
  /\ opsDone' = opsDone + 1
  /\ now' = now + 1
  /\ lsResearch' = IF "flai_research_data" \in malformed THEN lsResearch
                   ELSE filterRecent(lsResearch, thirtyDaysAgo(now'))
  /\ lsShareEvents' =
       IF {"flai_research_data", "flai_share_events"} \cap malformed # {}
         THEN lsShareEvents
         ELSE filterRecent(lsShareEvents, thirtyDaysAgo(now'))
  /\ lastCall' = [op |-> "cleanOldData", at |-> now', before |-> lsResearch,
                  raised |-> FALSE]
  /\ UNCHANGED << gameVars, lsLeaderboard, lsAnalytics, lsPageVisits, lsReferrals,
                  lsLastBackup, malformed, sessions, deviations, waiting,
                  histVars, remote, lastForwarded >>

\* Thirty days pass with the page open and nothing called.
ThirtyDaysPass ==
  /\ now < 30 * 24 * 60 * 60
  /\ now' = now + 30 * 24 * 60 * 60
  /\ UNCHANGED << gameVars, storeVars, sessions, deviations, waiting, histVars,
                  serverVars >>

\* Sessions end, and the operations that read or rewrite the stored
\* research records are called in any order.
NextRetention ==
  \/ EndSession(40)
  \/ BackupToServer("answered")
  \/ ImmediateBackup(TRUE, TRUE)
  \/ GetComprehensiveAnalytics(0)
  \/ DownloadCSV
  \/ ThirtyDaysPass
  \/ CleanOldData

SpecRetention == Init /\ [][NextRetention]_vars

(* ------------------------- claims: retention -------------------------- *)
\* list begins with the elements of prefix, in order.
StartsWith(list, prefix) ==
  /\ Len(prefix) <= Len(list)
  /\ SubSeq(list, 1, Len(prefix)) = prefix

\* C23 as stated: no operation changes or removes a record already stored
\* under flai_research_data; the list only grows by appending.
C23_AppendOnly == [][StartsWith(lsResearch', lsResearch)]_vars

\* The records of list whose timestamp is less than thirty days before t.
YoungerThanThirtyDays(list, t) ==
  SelectSeq(list, LAMBDA r : t - r.timestamp < 30 * 24 * 60 * 60)

\* C23, amended: a call of cleanOldData leaves exactly the stored records
\* younger than thirty days, unchanged and in order; every other step leaves
\* the stored records in place and at most appends.
C23_AppendOnlyButCleaning ==
  [][IF lastCall'.op = "cleanOldData" /\ lastCall' # lastCall
       THEN lsResearch' = YoungerThanThirtyDays(lsResearch, now')
       ELSE StartsWith(lsResearch', lsResearch)]_vars

\* cleanOldData has just removed one stored record and kept another.
C23_Witness ==
  /\ lastCall.op = "cleanOldData"
  /\ lsResearch # << >>
  /\ Len(lsResearch) < Len(lastCall.before)

(* ----------------------------- event logs ----------------------------- *)
referralsCap == 100

\* setupTrackingUrls' referralData
referralData(source, t) == [source |-> source, timestamp |-> t, page |-> "/game.html"]

\* What the page's address carries as utm_source or ref: nothing, or a name.
Sources == {"", "social_share"}

\* setupTrackingUrls(): a referral is recorded only when the address names
\* a source (the empty string is falsy).
SetupTrackingUrls(source) ==
  /\ opsDone < MaxOps
  /\ opsDone' = opsDone + 1
  /\ now' = IF source # "" THEN now + 1 ELSE now
  /\ lastCall' = [op |-> "setupTrackingUrls", arg |-> source, at |-> opsDone',
                  raised |-> FALSE]
  /\ lsReferrals' =
       IF source = "" \/ "flai_referrals" \in malformed THEN lsReferrals
       ELSE SliceLast(Append(lsReferrals, referralData(source, now')), referralsCap)
  /\ UNCHANGED << gameVars, lsLeaderboard, lsAnalytics, lsResearch, lsShareEvents,
                  lsPageVisits, lsLastBackup, malformed, sessions, deviations,
                  waiting, histVars, remote, lastForwarded >>

\* The logs of a browser that recorded that many entries in each log on
\* earlier visits, the oldest of them gone where that passes the cap; the
\* last page visit is this one.
LogsSoFar(recorded) ==
  /\ lsShareEvents =
       SliceLast([i \in 1..recorded |-> shareEvent("copy", "clipboard", i - recorded)],
                 shareEventsCap)
  /\ lsPageVisits =
       SliceLast([i \in 1..recorded |-> pageVisit(i - recorded + 1)], pageVisitsCap)
  /\ lsReferrals =
       SliceLast([i \in 1..recorded |-> referralData("social_share", i - recorded)],
                 referralsCap)

\* The page is opened on a first visit or by a returning browser.
InitLogs ==
  /\ screen = "welcome" /\ currentScenario = 0 /\ userProfile = EmptyObject
  /\ timeLeft = TimerSeconds /\ timer = 0 /\ intervals = {}
  /\ pendingAdvance = 0 /\ pendingEnd = << >> /\ lastResult = NoResult
  /\ answers = << >>
  /\ now = 1
  /\ lsResearch = << >>
  /\ sessions = 0 /\ deviations = 0 /\ waiting = FALSE
  /\ lsLastBackup = 0 /\ malformed = {}
  /\ remote = EmptyRemote /\ lastCall = NoCall /\ lastForwarded = << >>
  /\ opsDone = 0
  /\ SeededStore
  /\ \E recorded \in {1, pageVisitsCap - 1, shareEventsCap, shareEventsCap + 1} :
       LogsSoFar(recorded)

NextLogs ==
  \/ \E platform \in {"linkedin", "copy"} : TrackShareEvent(platform, "social_button")
  \/ TrackPageVisit
  \/ \E source \in Sources : SetupTrackingUrls(source)

SpecLogs == InitLogs /\ [][NextLogs]_vars

(* ------------------------- claims: event logs ------------------------- *)
\* log with entry recorded, the oldest one dropped when that passes cap.
Recorded(log, entry, cap) ==
  IF Len(log) < cap THEN Append(log, entry) ELSE Append(Tail(log), entry)

\* The step records an entry in the log (each recording reads the clock).
Records(op) == lastCall'.op = op /\ now' # now

\* C24: no log is ever longer than its cap (100 share events, 50 page
\* visits, 100 referrals), and each recording leaves the log's entries in
\* recording order with the new one last, the oldest dropped first.
C24_LogsCapped ==
  [][/\ Len(lsShareEvents') <= 100 /\ Len(lsPageVisits') <= 50
     /\ Len(lsReferrals') <= 100
     /\ Records("trackShareEvent") =>
          lsShareEvents' = Recorded(lsShareEvents, lastCall'.arg, 100)
     /\ Records("trackPageVisit") =>
          lsPageVisits' = Recorded(lsPageVisits, lastCall'.arg, 50)
     /\ Records("setupTrackingUrls") =>
          lsReferrals' = Recorded(lsReferrals, referralData(lastCall'.arg, now'), 100)
     /\ ~Records("trackShareEvent") => lsShareEvents' = lsShareEvents
     /\ ~Records("trackPageVisit") => lsPageVisits' = lsPageVisits
     /\ ~Records("setupTrackingUrls") => lsReferrals' = lsReferrals]_vars

\* Each log is at its cap and its oldest entry is gone: three recordings
\* made on full logs.
C24_Witness ==
  /\ Len(lsShareEvents) = 100 /\ lsShareEvents[100].platform = "linkedin"
  /\ lsShareEvents[1].timestamp > 0 - 99
  /\ Len(lsPageVisits) = 50 /\ lsPageVisits[1].timestamp > 0 - 48
  /\ Len(lsReferrals) = 100 /\ lsReferrals[1].timestamp > 0 - 99

(* --------------------------- sector analysis -------------------------- *)
MaxAnalyses == 1

\* analyzeBySector's key of a session
sectorOf(session) == OrElse(Get(session.demographics, "sector"), "no_especificado")

\* a + b of JavaScript for numbers, NaN and null: null counts as 0.
Plus(a, b) ==
  IF a = NaN \/ b = NaN THEN NaN
  ELSE (IF a = Null THEN 0 ELSE a) + (IF b = Null THEN 0 ELSE b)

RECURSIVE PlusAll(_, _)
\* start + values[1] + ... + values[n], left to right
PlusAll(start, values) ==
  IF values = << >> THEN start ELSE PlusAll(Plus(start, Head(values)), Tail(values))

\* decision_types[type] after the sector's sessions were added up: the
\* object starts as { ethical: 0, consultation: 0, risky: 0 }, and
\* undefined += n is NaN.
decisionTypeTotal(type, mine) ==
  PlusAll(IF type \in {"ethical", "consultation", "risky"} THEN 0 ELSE NaN,
          [i \in DOMAIN mine |-> mine[i].performance.decision_breakdown[type]])

\* Math.round(sum / count) where the sum may be NaN
RoundedAverage(sum, count) == IF sum = NaN THEN NaN ELSE MathRound(sum, count)

\* What analyzeBySector keeps for one sector, from its sessions in order
\* (the counts per cultural flag are left out).
sectorEntry(mine) ==
  [count |-> Len(mine),
   total_score |-> PlusAll(0, [i \in DOMAIN mine |-> mine[i].performance.percentage]),
   avg_score |->
     RoundedAverage(PlusAll(0, [i \in DOMAIN mine |-> mine[i].performance.percentage]),
                    Len(mine)),
   avg_response_time |->
     RoundedAverage(
       PlusAll(0, [i \in DOMAIN mine |-> mine[i].performance.avg_response_time]),
       Len(mine)),
   decision_types |->
     [type \in UNION {DOMAIN mine[i].performance.decision_breakdown : i \in DOMAIN mine}
        \cup {"ethical", "consultation", "risky"} |-> decisionTypeTotal(type, mine)]]

\* analyzeBySector(sessions)
analyzeBySector(exported) ==
  [sector \in {sectorOf(exported[i]) : i \in DOMAIN exported} |->
     sectorEntry(SelectSeq(exported, LAMBDA session : sectorOf(session) = sector))]

\* getCulturalInsights(): its sector_insights
GetCulturalInsights ==
  /\ opsDone < MaxAnalyses
  /\ opsDone' = opsDone + 1
  /\ lastCall' = [op |-> "getCulturalInsights",
                  exported |-> getGameSessionsData,
                  sector_insights |-> analyzeBySector(getGameSessionsData),
                  raised |-> FALSE]
  /\ UNCHANGED << gameVars, storeVars, envVars, histVars, remote, lastForwarded >>

\* addEntry called on the page with a result that leaves the profile out.
AddBlankResult ==
  /\ boardWrites < MaxStored
  /\ AddEntry([score |-> 77, category |-> Category(77), sector |-> ""])

NextSectors ==
  \/ Next
  \/ AddBlankResult
  \/ GetCulturalInsights

SpecSectors == Init /\ [][NextSectors]_vars

(* ----------------------- claims: sector analysis ---------------------- *)
\* The sessions of exported that analyzeBySector files under sector.
SessionsOf(exported, sector) ==
  SelectSeq(exported, LAMBDA session : sectorOf(session) = sector)

\* C30: in the result of analyzeBySector, for every sector and every
\* decision type of the sessions' breakdowns (ethical, consultation, risky,
\* skipped, timeout), decision_types holds a non-negative integer equal to
\* the sum of that type's counts over the sector's sessions, and count is
\* the number of those sessions.
C30_SectorTotals ==
  lastCall.op = "getCulturalInsights" =>
    \A sector \in DOMAIN lastCall.sector_insights :
      LET mine == SessionsOf(lastCall.exported, sector)
          entry == lastCall.sector_insights[sector]
      IN /\ entry.count = Len(mine)
         /\ \A type \in {"ethical", "consultation", "risky", "skipped", "timeout"} :
              /\ type \in DOMAIN entry.decision_types
              /\ entry.decision_types[type] \in Nat
              /\ entry.decision_types[type] =
                   SumOf([i \in DOMAIN mine |->
                            [n |-> mine[i].performance.decision_breakdown[type]]], "n")

\* The values the code writes for a demographic field left blank.
BlankSentinels == {"not_specified", "no_especificado"}

\* Every group key of the three demographic fields, in the stored
\* leaderboard, the stored sessions and the sector analysis of them.
DemographicValues ==
  {Get(lsLeaderboard[i], key) : i \in DOMAIN lsLeaderboard,
                                key \in {"sector", "position", "region"}}
    \cup {Get(lsResearch[i].demographics, key) :
            i \in DOMAIN lsResearch, key \in {"sector", "position", "region"}}
    \cup DOMAIN analyzeBySector(getGameSessionsData)

\* C25: every stored session record and leaderboard entry has a non-empty
\* sector, position and region, and a field left blank is stored as one and
\* the same sentinel everywhere, so that blank-sector sessions fall into one
\* group.
C25_OneSentinel ==
  /\ DemographicValues \cap {Undefined, ""} = {}
  /\ Cardinality(DemographicValues \cap BlankSentinels) <= 1

(* -------------------- claims: leaderboard categories ------------------ *)
\* C27: every stored leaderboard entry, the seeded samples included, has a
\* score in 0..100 and the category of the scorer's band for that score.
C27_CategoryOfScore ==
  \A i \in DOMAIN lsLeaderboard :
    /\ lsLeaderboard[i].score \in 0..100
    /\ lsLeaderboard[i].category = Category(lsLeaderboard[i].score)

(* --------------------------- claims: restart -------------------------- *)
\* C28: restartGame sets the scenario index to 0, empties the answers and
\* the profile, shows Welcome and changes no stored key, and it leaves no
\* countdown or delayed callback of the ended session pending, so that the
\* next session's Result comes from that session alone.
C28_RestartIsolates ==
  [][(screen = "results" /\ screen' = "welcome") =>
       /\ currentScenario' = 0 /\ answers' = << >> /\ userProfile' = EmptyObject
       /\ storeVars' = storeVars
       /\ pendingAdvance' = 0 /\ pendingEnd' = << >> /\ intervals' = {}]_vars

(* --------------------------- idle sessions ---------------------------- *)
\* The user neither clicks an option nor skips the scenario on screen.
Idle ==
  /\ ~waiting
  /\ intervals # {}
  /\ waiting' = TRUE
  /\ UNCHANGED << gameVars, storeVars, now, sessions, deviations, histVars,
                  serverVars >>

\* Sessions in which the user only starts, waits and restarts.
NextIdle ==
  \/ StartGame([sector |-> "fintech", position |-> "director",
                experience |-> "6-10", region |-> "caba"])
  \/ Idle
  \/ \E interval \in intervals : Tick(interval)
  \/ DelayedResults
  \/ RestartGame

\* The browser runs a live interval's callback every second and a timeout's
\* callback once its delay has passed; the user's inaction is the case the
\* sessions of this specification are about.
SpecIdle ==
  /\ Init
  /\ [][NextIdle]_vars
  /\ WF_vars(Idle)
  /\ WF_vars(\E interval \in intervals : Tick(interval))
  /\ WF_vars(DelayedResults)

====
